---- MODULE Spec2Model ----
(***************************************************************************)
(* Verification model of url2md (src/url2md.py, src/web_to_md.py).         *)
(*                                                                         *)
(* Strings are modelled as sequences of one-character strings, so that     *)
(* rstrip, startswith, split and the regular expressions of the source    *)
(* act on characters as they do in Python.  A URL is modelled by the six   *)
(* components urllib.parse.urlparse returns for it.                        *)
(***************************************************************************)
EXTENDS Integers, Sequences, FiniteSets, TLC

VARIABLES
    \* ---- URLQueue instance (src/url2md.py:1186-1290)
    urls,          \* self.urls: list of (normalized url, depth)
    visited,       \* self.visited: set of normalized urls
    base_domain,   \* self.base_domain
    base_path,     \* self.base_path
    max_depth,     \* self.max_depth
    \* ---- observation of the calls made on the queue
    start_url,     \* the start_url the queue was constructed with
    last,          \* the last call: operation, arguments, return value
    accepted,      \* entries of the add calls that returned True, in call order
    returned,      \* entries returned by get_next, in call order
    \* ---- text post-processing chain of scrape_to_markdown
    markdown,      \* the local variable markdown of scrape_to_markdown
    pc,            \* position in the chain
    md_in,         \* the text the current run of the chain started from
    run_out,       \* outputs of the completed runs of the chain
    \* ---- parse_sitemap
    site,          \* the documents served, by sitemap url
    filter_path,   \* the filter_path argument
    stack,         \* call stack of parse_sitemap frames
    result,        \* value returned by the outermost parse_sitemap call
    \* ---- runs of the entry points (scrape, batch, crawl, discovery, main)
    args,          \* the arguments the entry point was called with
    written,       \* the files written by scrape_to_markdown, in order
    sanitized,     \* the sanitize_filename calls: title and return values
    stats,         \* the ScrapeStats of the run
    trace,         \* the pages requested and the sleeps made, in order
    run_pc,        \* position in the entry point: in its loop, returned, raised
    current,       \* the loop variables: the url in hand and its depth or index
    discovered     \* the list discovered of discover_urls_by_path

vars == <<urls, visited, base_domain, base_path, max_depth, start_url, last, accepted,
          returned, markdown, pc, md_in, run_out, site, filter_path, stack,
          result, args, written, sanitized, stats, trace, run_pc, current,
          discovered>>

queueVars == <<urls, visited, base_domain, base_path, max_depth, start_url, last,
               accepted, returned>>
textVars == <<markdown, pc, md_in, run_out>>
sitemapVars == <<site, filter_path, stack, result>>
runVars == <<args, written, sanitized, stats, trace, run_pc, current, discovered>>
loopVars == <<stats, trace, run_pc, current, discovered>>

None == "None"

(***************************************************************************)
(* Generic string helpers (Python str methods used by the source).         *)
(***************************************************************************)

\* str.startswith
StartsWith(s, p) == Len(p) <= Len(s) /\ SubSeq(s, 1, Len(p)) = p

\* str.rstrip(chars): drop every trailing character that is in chars
RECURSIVE RStrip(_, _)
RStrip(s, chars) ==
    IF s # <<>> /\ s[Len(s)] \in chars THEN RStrip(SubSeq(s, 1, Len(s) - 1), chars)
    ELSE s

\* str.lstrip(chars)
RECURSIVE LStrip(_, _)
LStrip(s, chars) ==
    IF s # <<>> /\ s[1] \in chars THEN LStrip(Tail(s), chars)
    ELSE s

(***************************************************************************)
(* URLs.  ParsedUrl is what urlparse returns: scheme, netloc, path,        *)
(* params, query, fragment.  The path is a sequence of characters; the     *)
(* other components are compared as wholes only, and are plain strings.    *)
(***************************************************************************)

Url(scheme, netloc, path, params, query, fragment) ==
    [scheme |-> scheme, netloc |-> netloc, path |-> path, params |-> params,
     query |-> query, fragment |-> fragment]

NoUrl == Url("", "", <<>>, "", "", "")

\* urlunparse: the URL string of six components, as a sequence of pieces
\* (the pieces of the path are its characters)
urlunparse(scheme, netloc, path, params, query, fragment) ==
    <<scheme, "://", netloc>> \o path
        \o (IF params # "" THEN <<";", params>> ELSE <<>>)
        \o (IF query # "" THEN <<"?", query>> ELSE <<>>)
        \o (IF fragment # "" THEN <<"#", fragment>> ELSE <<>>)

\* the URL string a parsed URL was parsed from
UrlString(u) == urlunparse(u.scheme, u.netloc, u.path, u.params, u.query, u.fragment)

\* URLQueue.add, "Normalize URL (remove fragment, trailing slash)"
Normalize_keep_slash(parsed) ==
    urlunparse(parsed.scheme, parsed.netloc, parsed.path, "", parsed.query, "")
Normalize_keep_fragment(parsed) ==
    urlunparse(parsed.scheme, parsed.netloc, RStrip(parsed.path, {"/"}), "",
               parsed.query, parsed.fragment)
Normalize(parsed) ==
    urlunparse(parsed.scheme, parsed.netloc, RStrip(parsed.path, {"/"}), "",
               parsed.query, "")

\* URLQueue.__init__: base_path of the starting URL
BasePath_no_slash(parsed) == RStrip(parsed.path, {"/"})
BasePath(parsed) ==
    LET p == RStrip(parsed.path, {"/"}) \o <<"/">>
    IN  IF p = <<"/", "/">> THEN <<"/">> ELSE p

(***************************************************************************)
(* Inputs of the URLQueue specification.                                   *)
(***************************************************************************)

MaxAccepted == 2     \* add calls accepted in one behaviour
MaxDepthArg == 1     \* the depth limit tried; depth arguments go one beyond it

P_empty == <<>>
P_root == <<"/">>
P_blog == <<"/", "b", "l", "o", "g">>
P_blog_s == P_blog \o <<"/">>
P_post == P_blog_s \o <<"p", "o", "s", "t">>
P_post_s == P_post \o <<"/">>
P_post_ss == P_post \o <<"/", "/">>
P_blog2_post == P_blog \o <<"2", "/", "p", "o", "s", "t">>

PathInputs == {P_empty, P_blog, P_blog_s, P_post, P_post_s, P_post_ss, P_blog2_post}

UrlInputs ==
    {Url("https", "example.com", p, "", "", "") : p \in PathInputs}
    \cup {Url("https", "example.com", P_post, "", "", "top"),
          Url("https", "example.com", P_post, "", "q=1", ""),
          Url("https", "example.com", P_post, "v=2", "", ""),
          Url("https", "other.org", P_post, "", "", ""),
          Url("https", "other.org", P_empty, "", "", "")}

SeedInputs ==
    {Url("https", "example.com", P_blog_s, "", "", ""),
     Url("https", "example.com", P_blog, "", "", ""),
     Url("https", "other.org", P_empty, "", "", "")}

\* depths below, at and above the limit; no limit (0, negative) and a limit
DepthInputs == {0, MaxDepthArg, MaxDepthArg + 1}
MaxDepthInputs == {-1, 0, MaxDepthArg}

(***************************************************************************)
(* URLQueue (src/url2md.py:1186-1290).                                     *)
(***************************************************************************)

Call(op, url, depth, added, got) ==
    [op |-> op, url |-> url, depth |-> depth, added |-> added, got |-> got,
     urls_before |-> urls, visited_before |-> visited,
     base_domain_before |-> base_domain, base_path_before |-> base_path,
     max_depth_before |-> max_depth]

\* no call made yet
NoCall ==
    [op |-> "init", url |-> NoUrl, depth |-> 0, added |-> FALSE,
     got |-> <<None, None>>, urls_before |-> <<>>, visited_before |-> {},
     base_domain_before |-> "", base_path_before |-> <<>>, max_depth_before |-> 0]

\* URLQueue.__init__(start_url, max_depth)
URLQueue_init(seed, md) ==
    /\ urls = <<>>
    /\ visited = {}
    /\ max_depth = md
    /\ base_domain = seed.netloc
    /\ base_path = BasePath(seed)

\* the filters of URLQueue.add, in the order of the code; TRUE when the url
\* passes them all
add_depth_unchecked(parsed, depth) ==
    /\ Normalize(parsed) \notin visited
    /\ parsed.netloc = base_domain
    /\ StartsWith(parsed.path, base_path)
add_domain_unchecked(parsed, depth) ==
    /\ Normalize(parsed) \notin visited
    /\ StartsWith(parsed.path, base_path)
    /\ ~(max_depth > 0 /\ depth > max_depth)
add_zero_is_limit(parsed, depth) ==
    /\ Normalize(parsed) \notin visited
    /\ parsed.netloc = base_domain
    /\ StartsWith(parsed.path, base_path)
    /\ ~(depth > max_depth)
add_filters(parsed, depth) ==
    /\ Normalize(parsed) \notin visited
    /\ parsed.netloc = base_domain
    /\ StartsWith(parsed.path, base_path)
    /\ ~(max_depth > 0 /\ depth > max_depth)

\* URLQueue.add(url, depth)
add_forgets_visited(url, depth) ==
    /\ Len(accepted) < MaxAccepted
    /\ IF add_filters(url, depth)
       THEN /\ urls' = Append(urls, <<Normalize(url), depth>>)
            /\ accepted' = Append(accepted, [url |-> url,
                                             entry |-> <<Normalize(url), depth>>])
            /\ last' = Call("add", url, depth, TRUE, <<None, None>>)
            /\ UNCHANGED visited
       ELSE /\ UNCHANGED <<urls, visited, accepted>>
            /\ last' = Call("add", url, depth, FALSE, <<None, None>>)
    /\ UNCHANGED <<base_domain, base_path, max_depth, start_url, returned>>
add_marks_rejected(url, depth) ==
    /\ Len(accepted) < MaxAccepted
    /\ IF add_filters(url, depth)
       THEN /\ urls' = Append(urls, <<Normalize(url), depth>>)
            /\ visited' = visited \cup {Normalize(url)}
            /\ accepted' = Append(accepted, [url |-> url,
                                             entry |-> <<Normalize(url), depth>>])
            /\ last' = Call("add", url, depth, TRUE, <<None, None>>)
       ELSE /\ visited' = visited \cup {Normalize(url)}
            /\ UNCHANGED <<urls, accepted>>
            /\ last' = Call("add", url, depth, FALSE, <<None, None>>)
    /\ UNCHANGED <<base_domain, base_path, max_depth, start_url, returned>>
add(url, depth) ==
    /\ Len(accepted) < MaxAccepted
    /\ IF add_filters(url, depth)
       THEN /\ urls' = Append(urls, <<Normalize(url), depth>>)
            /\ visited' = visited \cup {Normalize(url)}
            /\ accepted' = Append(accepted, [url |-> url,
                                             entry |-> <<Normalize(url), depth>>])
            /\ last' = Call("add", url, depth, TRUE, <<None, None>>)
       ELSE /\ UNCHANGED <<urls, visited, accepted>>
            /\ last' = Call("add", url, depth, FALSE, <<None, None>>)
    /\ UNCHANGED <<base_domain, base_path, max_depth, start_url, returned>>

\* URLQueue.get_next()
get_next_lifo ==
    /\ IF urls # <<>>
       THEN /\ urls' = SubSeq(urls, 1, Len(urls) - 1)
            /\ returned' = Append(returned, urls[Len(urls)])
            /\ last' = Call("get_next", NoUrl, 0, FALSE, urls[Len(urls)])
       ELSE /\ UNCHANGED <<urls, returned>>
            /\ last' = Call("get_next", NoUrl, 0, FALSE, <<None, None>>)
    /\ UNCHANGED <<visited, base_domain, base_path, max_depth, start_url, accepted>>
get_next ==
    /\ IF urls # <<>>
       THEN /\ urls' = Tail(urls)
            /\ returned' = Append(returned, Head(urls))
            /\ last' = Call("get_next", NoUrl, 0, FALSE, Head(urls))
       ELSE /\ UNCHANGED <<urls, returned>>
            /\ last' = Call("get_next", NoUrl, 0, FALSE, <<None, None>>)
    /\ UNCHANGED <<visited, base_domain, base_path, max_depth, start_url, accepted>>

\* URLQueue.is_empty, URLQueue.size
is_empty == Len(urls) = 0
size == Len(urls)

TextIdle ==
    /\ markdown = <<>>
    /\ pc = "idle"
    /\ md_in = <<>>
    /\ run_out = <<>>

SitemapIdle ==
    /\ site = <<>>
    /\ filter_path = <<>>
    /\ stack = <<>>
    /\ result = <<>>

LoopIdle ==
    /\ stats = <<>>
    /\ trace = <<>>
    /\ run_pc = "idle"
    /\ current = <<>>
    /\ discovered = <<>>

RunIdle ==
    /\ args = <<>>
    /\ written = <<>>
    /\ sanitized = <<>>
    /\ LoopIdle

QueueIdle ==
    /\ urls = <<>>
    /\ visited = {}
    /\ base_domain = ""
    /\ base_path = <<>>
    /\ max_depth = 0
    /\ start_url = NoUrl
    /\ last = NoCall
    /\ accepted = <<>>
    /\ returned = <<>>

\* A URLQueue is constructed from a start url, then add and get_next are
\* called in any order.
Init ==
    /\ \E seed \in SeedInputs, md \in MaxDepthInputs :
          /\ URLQueue_init(seed, md)
          /\ start_url = seed
    /\ last = NoCall
    /\ accepted = <<>>
    /\ returned = <<>>
    /\ TextIdle
    /\ SitemapIdle
    /\ RunIdle

Next ==
    \/ \E url \in UrlInputs, depth \in DepthInputs :
          add(url, depth) /\ UNCHANGED textVars /\ UNCHANGED sitemapVars
             /\ UNCHANGED runVars
    \/ get_next /\ UNCHANGED textVars /\ UNCHANGED sitemapVars
             /\ UNCHANGED runVars

Spec == Init /\ [][Next]_vars

(***************************************************************************)
(* Claims about URLQueue, checked under Spec.                              *)
(***************************************************************************)

\* the same page: equal scheme, host and query, and paths equal up to
\* trailing slashes; params and fragment are free
SamePage(u1, u2) ==
    /\ u1.scheme = u2.scheme
    /\ u1.netloc = u2.netloc
    /\ u1.query = u2.query
    /\ RStrip(u1.path, {"/"}) = RStrip(u2.path, {"/"})

\* the seed's path prefix, trailing-slash-normalized
SeedPrefix == RStrip(start_url.path, {"/"}) \o <<"/">>

InDomainAndPath(u) ==
    /\ u.netloc = start_url.netloc
    /\ StartsWith(u.path, SeedPrefix)

OverDepth(d) == max_depth > 0 /\ d > max_depth

\* the adds accepted before the last call
EarlierAccepted ==
    IF last.op = "add" /\ last.added THEN SubSeq(accepted, 1, Len(accepted) - 1)
    ELSE accepted

SeenBefore(u) ==
    \E i \in DOMAIN EarlierAccepted : SamePage(EarlierAccepted[i].url, u)

LastAddHadNoEffect ==
    /\ ~last.added
    /\ urls = last.urls_before
    /\ visited = last.visited_before

\* C1: once add has accepted a URL, a later add of any in-scope URL that is
\* the same page (same scheme, host, query, path up to trailing slashes,
\* whatever its fragment or params) returns False and enqueues nothing, so
\* the two calls together enqueue exactly one entry; no page is ever
\* accepted twice.
C1_AddTwiceEnqueuesOnce ==
    /\ \A i, j \in DOMAIN accepted :
          SamePage(accepted[i].url, accepted[j].url) => i = j
    /\ (last.op = "add" /\ InDomainAndPath(last.url) /\ ~OverDepth(last.depth)
          /\ SeenBefore(last.url))
       => (~last.added /\ Len(urls) = Len(last.urls_before))
    /\ (last.op = "add" /\ InDomainAndPath(last.url) /\ ~OverDepth(last.depth)
          /\ ~SeenBefore(last.url))
       => (last.added /\ Len(urls) = Len(last.urls_before) + 1)

\* C1 witness: an in-scope add is rejected because the same page was accepted
\* earlier under another spelling
C1_Witness ==
    /\ last.op = "add" /\ ~last.added
    /\ InDomainAndPath(last.url) /\ ~OverDepth(last.depth)
    /\ \E i \in DOMAIN accepted :
          /\ SamePage(accepted[i].url, last.url)
          /\ accepted[i].url # last.url
          /\ accepted[i].entry[2] = last.depth
    /\ Len(urls) = 1

\* C2: add returns False and enqueues nothing for a URL of another host and
\* for a URL whose path does not start with the seed's path prefix; with seed
\* https://example.com/blog/ the link /blog2/post is rejected and /blog/post
\* at depth 1 is accepted when max_depth >= 1.
C2_RejectsOutOfScope ==
    /\ (last.op = "add" /\ ~InDomainAndPath(last.url)) => LastAddHadNoEffect
    /\ (/\ start_url = Url("https", "example.com", P_blog_s, "", "", "")
        /\ last.op = "add"
        /\ last.url = Url("https", "example.com", P_blog2_post, "", "", ""))
       => ~last.added
    /\ (/\ start_url = Url("https", "example.com", P_blog_s, "", "", "")
        /\ last.op = "add"
        /\ last.url = Url("https", "example.com", P_post, "", "", "")
        /\ last.depth = 1 /\ max_depth >= 1
        /\ ~SeenBefore(last.url))
       => last.added

\* C2 witness: seed /blog/, /blog/post was accepted and /blog2/post is rejected
C2_Witness ==
    /\ start_url = Url("https", "example.com", P_blog_s, "", "", "")
    /\ last.op = "add" /\ ~last.added
    /\ last.url = Url("https", "example.com", P_blog2_post, "", "", "")
    /\ Len(accepted) = 1
    /\ accepted[1].url = Url("https", "example.com", P_post, "", "", "")

\* C3: an unvisited URL of the seed's host and path prefix is rejected exactly
\* when max_depth > 0 and depth > max_depth; with max_depth = 0 (or below) it
\* is always accepted.
C3_DepthLimit ==
    (last.op = "add" /\ InDomainAndPath(last.url) /\ ~SeenBefore(last.url))
    => /\ last.added <=> ~(max_depth > 0 /\ last.depth > max_depth)
       /\ max_depth = 0 => last.added

\* C3 witness: a fresh in-scope URL rejected for its depth alone
C3_Witness ==
    /\ last.op = "add" /\ ~last.added
    /\ InDomainAndPath(last.url) /\ ~SeenBefore(last.url)
    /\ max_depth > 0 /\ last.depth = max_depth + 1

\* C4: when add returns False, the queue, the visited set, base_domain,
\* base_path and max_depth are as they were before the call.
C4_RejectedAddNoEffect ==
    (last.op = "add" /\ ~last.added)
    => /\ urls = last.urls_before
       /\ visited = last.visited_before
       /\ base_domain = last.base_domain_before
       /\ base_path = last.base_path_before
       /\ max_depth = last.max_depth_before

\* C4 witness: an add rejected as already visited, on a non-empty queue
C4_Witness ==
    /\ last.op = "add" /\ ~last.added
    /\ InDomainAndPath(last.url) /\ ~OverDepth(last.depth)
    /\ urls # <<>> /\ visited # {}

Entries(log) == [i \in DOMAIN log |-> log[i].entry]

\* C5: get_next returns the accepted entries in the order their adds were
\* accepted, whatever their depths, and removes what it returns; on an empty
\* queue it returns (None, None) and changes nothing.
C5_Fifo ==
    /\ Entries(accepted) = returned \o urls
    /\ last.op = "get_next" =>
          /\ visited = last.visited_before
          /\ IF last.urls_before = <<>>
             THEN last.got = <<None, None>> /\ urls = <<>>
             ELSE last.got = Head(last.urls_before) /\ urls = Tail(last.urls_before)

\* C5 witness: two entries returned in insertion order, the deeper one first,
\* leaving the queue empty
C5_Witness ==
    /\ last.op = "get_next"
    /\ Len(returned) = 2
    /\ returned[1][2] > returned[2][2]
    /\ urls = <<>>

\* C22: in every state of a URLQueue every queued url is in the visited set,
\* no normalized url is in the queue twice, no call has made the visited set
\* smaller, and get_next has returned no normalized url twice.
C22_QueueInvariant ==
    /\ \A i \in DOMAIN urls : urls[i][1] \in visited
    /\ \A i, j \in DOMAIN urls : urls[i][1] = urls[j][1] => i = j
    /\ last.visited_before \subseteq visited
    /\ \A i, j \in DOMAIN returned : returned[i][1] = returned[j][1] => i = j
    /\ \A i \in DOMAIN returned : returned[i][1] \in visited

\* a url that get_next has returned, and that is no longer in the queue, is
\* added again under another spelling and rejected
C22_Witness ==
    /\ last.op = "add" /\ ~last.added
    /\ \E i \in DOMAIN returned :
          returned[i][1] = Normalize(last.url) /\ accepted[i].url # last.url
    /\ InDomainAndPath(last.url) /\ ~OverDepth(last.depth)
    /\ urls = <<>>

(***************************************************************************)
(* Text.  A text is a sequence of characters (one-character strings; the   *)
(* accented letters of the source's character classes are named atoms).    *)
(***************************************************************************)

NL == "\n"

LowerAscii == <<"a", "b", "c", "d", "e", "f", "g", "h", "i", "j", "k", "l", "m",
                "n", "o", "p", "q", "r", "s", "t", "u", "v", "w", "x", "y", "z">>
UpperAscii == <<"A", "B", "C", "D", "E", "F", "G", "H", "I", "J", "K", "L", "M",
                "N", "O", "P", "Q", "R", "S", "T", "U", "V", "W", "X", "Y", "Z">>
\* e-acute e-grave e-circumflex e-diaeresis a-grave a-circumflex a-diaeresis
\* o-circumflex o-diaeresis u-circumflex u-diaeresis c-cedilla i-circumflex
\* i-diaeresis, as in the character classes of fix_broken_words
LowerAccented == <<"e-acute", "e-grave", "e-circ", "e-diaer", "a-grave", "a-circ",
                   "a-diaer", "o-circ", "o-diaer", "u-circ", "u-diaer", "c-ced",
                   "i-circ", "i-diaer">>
UpperAccented == <<"E-acute", "E-grave", "E-circ", "E-diaer", "A-grave", "A-circ",
                   "A-diaer", "O-circ", "O-diaer", "U-circ", "U-diaer", "C-ced",
                   "I-circ", "I-diaer">>
LowerSeq == LowerAscii \o LowerAccented \o <<"a-tilde">>
UpperSeq == UpperAscii \o UpperAccented \o <<"A-tilde">>

Range(f) == {f[i] : i \in DOMAIN f}

Digits == {"0", "1", "2", "3", "4", "5", "6", "7", "8", "9"}
\* \s of Python's re
WS == {" ", "\t", NL, "\r", "\f"}
\* \w of Python's re
WordChars == Range(LowerSeq) \cup Range(UpperSeq) \cup Digits \cup {"_", "fem-ordinal"}
\* [a-z...] and [a-z...A-Z...] of fix_broken_words
LowerLetters == Range(LowerAscii) \cup Range(LowerAccented)
Letters == LowerLetters \cup Range(UpperAscii) \cup Range(UpperAccented)
\* [a-zA-Z...] of remove_initial_metadata
SimpleLetters == Letters

\* str.lower, str.upper on one character
Lower(c) ==
    IF \E k \in DOMAIN UpperSeq : UpperSeq[k] = c
    THEN LowerSeq[CHOOSE k \in DOMAIN UpperSeq : UpperSeq[k] = c]
    ELSE c
Upper(c) ==
    IF \E k \in DOMAIN LowerSeq : LowerSeq[k] = c
    THEN UpperSeq[CHOOSE k \in DOMAIN LowerSeq : LowerSeq[k] = c]
    ELSE c
\* str.lower
LowerStr(s) == [i \in DOMAIN s |-> Lower(s[i])]

\* str.strip() and str.lstrip() without argument: whitespace
Strip(s) == LStrip(RStrip(s, WS), WS)

\* the least element of a non-empty set of integers
Min(S) == CHOOSE x \in S : \A y \in S : x <= y

\* the element of a set of one element; The({e : v \in {x}}) is e for v the
\* value of x, worked out once, as a local variable is
The(S) == CHOOSE y \in S : TRUE

\* str.split(sep) for a one-character separator: the pieces between the
\* separators
Split(s, sep) ==
    LET at == SelectSeq([k \in 1..Len(s) |-> k], LAMBDA k : s[k] = sep)
        cuts == <<0>> \o at \o <<Len(s) + 1>>
    IN  [j \in 1..(Len(cuts) - 1) |-> SubSeq(s, cuts[j] + 1, cuts[j + 1] - 1)]

\* sep.join(lines)
RECURSIVE Join(_, _)
Join(lines, sep) ==
    IF lines = <<>> THEN <<>>
    ELSE IF Len(lines) = 1 THEN lines[1]
    ELSE lines[1] \o <<sep>> \o Join(Tail(lines), sep)

\* str.split() without argument: the maximal runs of non-whitespace
Words(s) ==
    LET first == SelectSeq([k \in 1..Len(s) |-> k],
                           LAMBDA k : s[k] \notin WS /\ (k = 1 \/ s[k - 1] \in WS))
        last_of(b) == Min({e \in b..Len(s) : e = Len(s) \/ s[e + 1] \in WS})
    IN  [j \in 1..Len(first) |-> SubSeq(s, first[j], last_of(first[j]))]

\* str.replace(old, new), old not empty: the occurrences from the left
RECURSIVE ReplaceFrom(_, _, _, _)
ReplaceFrom(s, old, new, i) ==
    LET at == {p \in i..(Len(s) - Len(old) + 1) : SubSeq(s, p, p + Len(old) - 1) = old}
    IN  IF at = {} THEN SubSeq(s, i, Len(s))
        ELSE The({SubSeq(s, i, p - 1) \o new \o ReplaceFrom(s, old, new, p + Len(old)) :
                     p \in {Min(at)}})
Replace(s, old, new) == The({ReplaceFrom(v, old, new, 1) : v \in {s}})

(***************************************************************************)
(* Regular expressions, with the backtracking semantics of Python's re.    *)
(* The patterns of the source are concatenations of elements: a character  *)
(* class, a literal, ^, $, a lookahead for a class, an alternation of       *)
(* literals, a repetition of a class.  Match gives the end positions of an *)
(* element matched at position i, in the order the backtracking matcher     *)
(* tries them; First gives the end of the match re finds.                   *)
(***************************************************************************)

In(S) == [t |-> "in", s |-> S]              \* [...]
NotIn(S) == [t |-> "notin", s |-> S]        \* [^...]
Chr(c) == In({c})
Dot == NotIn({NL})                          \* .
DotAll == NotIn({})                         \* [\s\S]
Bol == [t |-> "bol"]                        \* ^
Eol == [t |-> "eol"]                        \* $
Lit(str) == [t |-> "lit", s |-> str]
Ahead(r) == [t |-> "ahead", r |-> r]        \* (?=r)
Cat(rs) == [t |-> "cat", rs |-> rs]
Alt(rs) == [t |-> "alt", rs |-> rs]
\* r{lo,hi}; hi = -1 for no upper limit
Rep(r, lo, hi, greedy) == [t |-> "rep", r |-> r, lo |-> lo, hi |-> hi, greedy |-> greedy]
Star(r) == Rep(r, 0, -1, TRUE)              \* r*
Plus(r) == Rep(r, 1, -1, TRUE)              \* r+
Opt(r) == Rep(r, 0, 1, TRUE)                \* r?
LazyStar(r) == Rep(r, 0, -1, FALSE)         \* r*?

\* flags: ic = re.IGNORECASE, ml = re.MULTILINE
Flags(ic, ml) == [ic |-> ic, ml |-> ml]
NoFlags == Flags(FALSE, FALSE)

CharIn(c, S, f) == c \in S \/ (f.ic /\ (Lower(c) \in S \/ Upper(c) \in S))
\* c is matched by the class r
Class(r, c, f) == IF r.t = "in" THEN CharIn(c, r.s, f) ELSE ~CharIn(c, r.s, f)

\* the number of characters from position i on that the class r matches
RunLength(r, s, i, f) ==
    LET stops == {k \in i..Len(s) : ~Class(r, s[k], f)}
    IN  IF stops = {} THEN Len(s) - i + 1 ELSE Min(stops) - i

\* r{lo,hi} of a class from i: greedy tries the longest run first, lazy the
\* shortest
MatchRep(r, s, i, f) ==
    LET run == RunLength(r.r, s, i, f)
        n == IF r.hi # -1 /\ run > r.hi THEN r.hi ELSE run
    IN  IF n < r.lo THEN <<>>
        ELSE IF r.greedy THEN [k \in 1..(n - r.lo + 1) |-> i + n - k + 1]
        ELSE [k \in 1..(n - r.lo + 1) |-> i + r.lo + k - 1]

RECURSIVE Match(_, _, _, _)
Match(r, s, i, f) ==
    CASE r.t \in {"in", "notin"} ->
            IF i <= Len(s) /\ Class(r, s[i], f) THEN <<i + 1>> ELSE <<>>
      [] r.t = "lit" ->
            IF /\ i + Len(r.s) - 1 <= Len(s)
               /\ \A j \in DOMAIN r.s : CharIn(s[i + j - 1], {r.s[j]}, f)
            THEN <<i + Len(r.s)>> ELSE <<>>
      [] r.t = "bol" ->
            IF i = 1 \/ (f.ml /\ i > 1 /\ s[i - 1] = NL) THEN <<i>> ELSE <<>>
      [] r.t = "eol" ->
            IF \/ i = Len(s) + 1
               \/ (i = Len(s) /\ s[i] = NL)
               \/ (f.ml /\ i <= Len(s) /\ s[i] = NL)
            THEN <<i>> ELSE <<>>
      [] r.t = "ahead" -> IF Match(r.r, s, i, f) # <<>> THEN <<i>> ELSE <<>>
      [] r.t = "alt" ->
            LET hit == SelectSeq(r.rs, LAMBDA a : Match(a, s, i, f) # <<>>)
            IN  [k \in 1..Len(hit) |-> Match(hit[k], s, i, f)[1]]
      [] r.t = "rep" -> MatchRep(r, s, i, f)

\* the first of a sequence of ends, 0 when there is none
FirstOf(ends) == The({IF e = <<>> THEN 0 ELSE e[1] : e \in {ends}})

\* the end of the first way to match the elements rs[k..] from i, each
\* element's ends tried in order; 0 when there is none
RECURSIVE FirstCat(_, _, _, _, _)
FirstCat(rs, k, s, i, f) ==
    IF k > Len(rs) THEN i
    ELSE The({FirstOf(SelectSeq([j \in 1..Len(starts) |->
                                    FirstCat(rs, k + 1, s, starts[j], f)],
                                LAMBDA e : e # 0)) :
                 starts \in {Match(rs[k], s, i, f)}})

\* the end of the match re finds at i, 0 when there is none
First(r, s, i, f) ==
    IF r.t = "cat" THEN FirstCat(r.rs, 1, s, i, f) ELSE FirstOf(Match(r, s, i, f))

\* re.match(r, s) succeeds
Matches(r, s, f) == First(r, s, 1, f) # 0

\* replacement templates of re.sub: a literal text, or the match without its
\* newline (r'\1\2' and r'\1' of fix_broken_words, whose groups are the match
\* but for the one newline between or after them)
ReplLit(str) == [k |-> "lit", v |-> str]
ReplDropNL == [k |-> "dropnl", v |-> <<>>]
Expand(repl, matched) ==
    IF repl.k = "lit" THEN repl.v
    ELSE SelectSeq(matched, LAMBDA c : c # NL)

\* re.sub(r, repl, s, count, flags); count = -1 for all matches (there are
\* no more than Len(s) + 1).  The matches are found left to right and do not
\* overlap; after an empty match the search moves on by one character.
RECURSIVE SubFrom(_, _, _, _, _, _)
SubFrom(r, repl, s, i, count, f) ==
    LET starts == {p \in i..(Len(s) + 1) : First(r, s, p, f) # 0}
    IN  IF count = 0 \/ starts = {} THEN SubSeq(s, i, Len(s))
        ELSE The({(LET e == First(r, s, p, f)
                   IN  SubSeq(s, i, p - 1) \o Expand(repl, SubSeq(s, p, e - 1))
                          \o (IF e > p THEN SubFrom(r, repl, s, e, count - 1, f)
                              ELSE IF p <= Len(s)
                              THEN <<s[p]>> \o SubFrom(r, repl, s, p + 1, count - 1, f)
                              ELSE <<>>)) :
                     p \in {Min(starts)}})
Sub(r, repl, s, count, f) ==
    The({SubFrom(r, repl, v, 1, IF count = -1 THEN Len(v) + 2 ELSE count, f) : v \in {s}})

(***************************************************************************)
(* fix_broken_words and clean_markdown_output: code-block protection.      *)
(***************************************************************************)

TICKS == <<"backtick", "backtick", "backtick">>
\* r'```[\s\S]*?```'
FENCE == Cat(<<Lit(TICKS), LazyStar(DotAll), Lit(TICKS)>>)

\* f"CODEBLOCK_{uuid.uuid4().hex}" of the k-th block extracted.  Of the 32
\* hexadecimal digits two are kept: one that tells the blocks of one call
\* apart, and the last one, which is the only one next to the text that
\* follows the placeholder; tail is that last digit, drawn by uuid4.
BlockIds == <<"1", "2", "3", "4", "5", "6", "7", "8", "9">>
Placeholder(k, tail) ==
    <<"C", "O", "D", "E", "B", "L", "O", "C", "K", "_">> \o <<BlockIds[k], tail>>

\* re.sub(r'```[\s\S]*?```', replace_code_block, markdown_text): the text
\* with each block replaced by its placeholder, and the blocks (code_blocks)
RECURSIVE ExtractFrom(_, _, _, _)
ExtractFrom(s, i, k, tails) ==
    LET starts == {p \in i..Len(s) : First(FENCE, s, p, NoFlags) # 0}
    IN  IF starts = {} THEN [text |-> SubSeq(s, i, Len(s)), blocks |-> <<>>]
        ELSE The({[text |-> SubSeq(s, i, p - 1) \o Placeholder(k, tails[k]) \o rest.text,
                   blocks |-> <<SubSeq(s, p, First(FENCE, s, p, NoFlags) - 1)>>
                                 \o rest.blocks] :
                     p \in {Min(starts)},
                     rest \in {ExtractFrom(s, First(FENCE, s, Min(starts), NoFlags),
                                           k + 1, tails)}})
ExtractCodeBlocks(s, tails) == The({ExtractFrom(v, 1, 1, tails) : v \in {s}})

\* for placeholder, code_block in code_blocks.items():
\*     markdown_text = markdown_text.replace(placeholder, code_block)
RECURSIVE RestoreFrom(_, _, _, _)
RestoreFrom(s, blocks, k, tails) ==
    IF k > Len(blocks) THEN s
    ELSE RestoreFrom(Replace(s, Placeholder(k, tails[k]), blocks[k]), blocks, k + 1, tails)
RestoreCodeBlocks(s, blocks, tails) == RestoreFrom(s, blocks, 1, tails)

\* r'([a-z...A-Z...]+)\n([a-z...]+)'
BROKEN_WORD == Cat(<<Plus(In(Letters)), Chr(NL), Plus(In(LowerLetters))>>)
\* r'([a-z...])\n(?=[a-z...])', re.IGNORECASE
BROKEN_SENTENCE == Cat(<<In(LowerLetters), Chr(NL), Ahead(In(LowerLetters))>>)

\* the two substitutions of fix_broken_words
JoinBrokenWords(s) ==
    Sub(BROKEN_SENTENCE, ReplDropNL,
        Sub(BROKEN_WORD, ReplDropNL, s, -1, NoFlags),
        -1, Flags(TRUE, FALSE))

\* fix_broken_words(markdown_text); tails are the last digits of the uuids
\* drawn for the placeholders
fix_broken_words(markdown_text, tails) ==
    LET ex == ExtractCodeBlocks(markdown_text, tails)
    IN  RestoreCodeBlocks(JoinBrokenWords(ex.text), ex.blocks, tails)

\* web_to_md.fix_broken_words: the same substitutions, without protection
web_fix_broken_words(markdown_text) == JoinBrokenWords(markdown_text)

GLISSEZ == <<"G", "l", "i", "s", "s", "e", "z", " ", "p", "o", "u", "r", " ", "v", "o", "i", "r">>
CalloutTypes ==
    <<Lit(<<"N", "O", "T", "E">>), Lit(<<"T", "I", "P">>),
      Lit(<<"W", "A", "R", "N", "I", "N", "G">>),
      Lit(<<"D", "A", "N", "G", "E", "R">>),
      Lit(<<"I", "M", "P", "O", "R", "T", "A", "N", "T">>),
      Lit(<<"E", "X", "A", "M", "P", "L", "E">>),
      Lit(<<"Q", "U", "E", "S", "T", "I", "O", "N">>),
      Lit(<<"Q", "U", "O", "T", "E">>)>>
\* r'>\s*\[!(NOTE|...|QUOTE)\]\s*\n>\s*\n>\s*Glissez pour voir\s*\n?'
GLISSEZ_CALLOUT ==
    Cat(<<Chr(">"), Star(In(WS)), Lit(<<"[", "!">>), Alt(CalloutTypes), Chr("]"),
          Star(In(WS)), Chr(NL), Chr(">"), Star(In(WS)), Chr(NL), Chr(">"),
          Star(In(WS)), Lit(GLISSEZ), Star(In(WS)), Opt(Chr(NL))>>)
\* r'^Glissez pour voir\s*$', re.MULTILINE
GLISSEZ_LINE == Cat(<<Bol, Lit(GLISSEZ), Star(In(WS)), Eol>>)
\* r'^\s+$', re.MULTILINE
BLANK_LINES == Cat(<<Bol, Plus(In(WS)), Eol>>)
\* r' +$', re.MULTILINE
TRAILING_SPACES == Cat(<<Plus(Chr(" ")), Eol>>)
\* r'\n{3,}'
NEWLINES_3 == Rep(Chr(NL), 3, -1, TRUE)

ML == Flags(FALSE, TRUE)
MLIC == Flags(TRUE, TRUE)
Delete == ReplLit(<<>>)

\* step 2 of clean_markdown_output, on the text without its code blocks
CleanText(s) ==
    Sub(NEWLINES_3, ReplLit(<<NL, NL>>),
        Sub(TRAILING_SPACES, Delete,
            Sub(BLANK_LINES, Delete,
                Sub(GLISSEZ_LINE, Delete,
                    Sub(GLISSEZ_CALLOUT, Delete, s, -1, NoFlags),
                    -1, ML),
                -1, ML),
            -1, ML),
        -1, NoFlags)

\* clean_markdown_output(markdown_text)
clean_markdown_output(markdown_text, tails) ==
    LET ex == ExtractCodeBlocks(markdown_text, tails)
    IN  RestoreCodeBlocks(CleanText(ex.text), ex.blocks, tails)

\* web_to_md.clean_markdown_output: no protection, no callout pattern
web_clean_markdown_output(markdown_text) ==
    Sub(NEWLINES_3, ReplLit(<<NL, NL>>),
        Sub(TRAILING_SPACES, Delete,
            Sub(BLANK_LINES, Delete,
                Sub(GLISSEZ_LINE, Delete, markdown_text, -1, ML),
                -1, ML),
            -1, ML),
        -1, NoFlags)

(***************************************************************************)
(* remove_first_h1 (url2md.py:649-667, web_to_md.py:225-231).              *)
(***************************************************************************)

\* r'^#\s+.+$', re.MULTILINE
FIRST_H1 == Cat(<<Bol, Chr("#"), Plus(In(WS)), Plus(Dot), Eol>>)

remove_first_h1(markdown_text) ==
    LStrip(Sub(FIRST_H1, Delete, markdown_text, 1, ML), {NL})

(***************************************************************************)
(* remove_unwanted_links (url2md.py:670-734).                              *)
(***************************************************************************)

\* r'^\[Section intitul[e e-acute A-tilde copyright]+e[^\]]+\]\([^)]+\)\s*$'
SECTION_LINK ==
    Cat(<<Bol, Chr("["), Lit(<<"S", "e", "c", "t", "i", "o", "n", " ", "i", "n", "t", "i",
        "t", "u", "l">>),
          Plus(In({"e", "e-acute", "A-tilde", "copyright"})), Chr("e"),
          Plus(NotIn({"]"})), Chr("]"), Chr("("), Plus(NotIn({")"})), Chr(")"),
          Star(In(WS)), Eol>>)
\* r'^Section intitul[e e-acute A-tilde copyright]+e\s+[laquo"][^raquo"]+[raquo"]\s*$'
SECTION_TEXT ==
    Cat(<<Bol, Lit(<<"S", "e", "c", "t", "i", "o", "n", " ", "i", "n", "t", "i", "t", "u", "l">>),
          Plus(In({"e", "e-acute", "A-tilde", "copyright"})), Chr("e"),
          Plus(In(WS)), In({"laquo", "\""}), Plus(NotIn({"raquo", "\""})),
          In({"raquo", "\""}), Star(In(WS)), Eol>>)
\* r'^\[Fen[e e-circ A-tilde fem-ordinal]tre de terminal\]\([^)]+\)\s*$'
TERMINAL_LINK ==
    Cat(<<Bol, Chr("["), Lit(<<"F", "e", "n">>),
          In({"e", "e-circ", "A-tilde", "fem-ordinal"}),
          Lit(<<"t", "r", "e", " ", "d", "e", " ", "t", "e", "r", "m", "i", "n", "a", "l">>),
          Chr("]"), Chr("("), Plus(NotIn({")"})), Chr(")"), Star(In(WS)), Eol>>)
\* r'^\[Aller au contenu\]\([^)]+\)\s*$'
SKIP_LINK ==
    Cat(<<Bol, Chr("["), Lit(<<"A", "l", "l", "e", "r", " ", "a", "u", " ", "c", "o", "n",
        "t", "e", "n", "u">>),
          Chr("]"), Chr("("), Plus(NotIn({")"})), Chr(")"), Star(In(WS)), Eol>>)

remove_unwanted_links(markdown_text) ==
    Sub(SKIP_LINK, Delete,
        Sub(TERMINAL_LINK, Delete,
            Sub(SECTION_TEXT, Delete,
                Sub(SECTION_LINK, Delete, markdown_text, -1, MLIC),
                -1, MLIC),
            -1, MLIC),
        -1, MLIC)

(***************************************************************************)
(* remove_initial_metadata (url2md.py:737-816).                            *)
(***************************************************************************)

\* "Only clean the first 10 non-empty lines"
MetadataLines == 10

Badges ==
    {<<"h", "i", "g", "h">>, <<"m", "e", "d", "i", "u", "m">>,
     <<"l", "o", "w">>, <<"e", "a", "s", "y">>, <<"h", "a", "r", "d">>,
     <<"b", "e", "g", "i", "n", "n", "e", "r">>,
     <<"i", "n", "t", "e", "r", "m", "e", "d", "i", "a", "t", "e">>,
     <<"a", "d", "v", "a", "n", "c", "e", "d">>}

MarkdownChars == {"*", "[", "]", "(", ")", "#", "backtick"}

\* r'^[a-zA-Z...]+$'
SIMPLE_WORD == Cat(<<Bol, Plus(In(SimpleLetters)), Eol>>)

\* Pattern 3: three words or more, all simple, no markdown character
IsTagLine(stripped) ==
    LET words == Words(stripped)
    IN  /\ Len(words) >= 3
        /\ \A k \in DOMAIN words : Matches(SIMPLE_WORD, words[k], NoFlags)
        /\ ~\E k \in DOMAIN stripped : stripped[k] \in MarkdownChars

\* the loop of remove_initial_metadata from line i on
RECURSIVE MetadataLoop(_, _, _, _)
MetadataLoop(lines, i, res, non_empty_count) ==
    IF i > Len(lines) THEN res
    ELSE LET line == lines[i]
             stripped == Strip(line)
             n == IF stripped # <<>> THEN non_empty_count + 1 ELSE non_empty_count
         IN  IF n > MetadataLines
             THEN MetadataLoop(lines, i + 1, Append(res, line), n)
             ELSE IF stripped = <<>> /\ res = <<>>
             THEN MetadataLoop(lines, i + 1, res, n)
             ELSE IF StartsWith(line, <<" ">>) /\ stripped # <<>>
             THEN MetadataLoop(lines, i + 1, res, n)
             ELSE IF LowerStr(stripped) \in Badges
             THEN MetadataLoop(lines, i + 1, res, n)
             ELSE IF IsTagLine(stripped)
             THEN MetadataLoop(lines, i + 1, res, n)
             ELSE MetadataLoop(lines, i + 1, Append(res, line), n)

remove_initial_metadata(markdown_text) ==
    The({Join(kept, NL) :
            kept \in {MetadataLoop(Split(markdown_text, NL), 1, <<>>, 0)}})

(***************************************************************************)
(* remove_unwanted_sections (url2md.py:907-992).                           *)
(***************************************************************************)

unwanted_titles ==
    {<<"c", "e", " ", "q", "u", "e", " ", "v", "o", "u", "s", " ", "a", "l", "l", "e", "z",
        " ", "a", "p", "p", "r", "e", "n", "d", "r", "e">>,
     <<"t", "e", "s", "t", "e", "z", " ", "v", "o", "s", " ", "c", "o", "n", "n", "a", "i",
         "s", "s", "a", "n", "c", "e", "s">>,
     <<"C", "o", "n", "t", "r", "o-circ", "l", "e", " ", "d", "e", "s", " ", "c", "o", "n",
         "n", "a", "i", "s", "s", "a", "n", "c", "e", "s">>,
     <<"c", "e", " ", "s", "i", "t", "e", " ", "v", "o", "u", "s", " ", "e", "s", "t", " ",
         "u", "t", "i", "l", "e">>,
     <<"c", "e", " ", "s", "i", "t", "e", " ", "v", "o", "u", "s", " ", "e", "s", "t", " ",
         "u", "t", "i", "l", "e", " ", "?">>}

\* r'^(#{1,6})\s+(.+)$'
HEADER == Cat(<<Bol, Rep(Chr("#"), 1, 6, TRUE), Plus(In(WS)), Plus(Dot), Eol>>)

\* len(header_match.group(1)): the '#' are matched greedily and whitespace
\* must follow them, so group 1 is the whole run of '#' the line starts with
HeaderLevel(line) == Len(line) - Len(LStrip(line, {"#"}))
\* header_match.group(2).strip(): group 2 is what follows the whitespace
\* after the '#' (or, when only whitespace follows, the last of it)
HeaderTitle(line) == Strip(LStrip(line, {"#"}))
\* title.lower().strip().rstrip('?').strip()
NormalizedTitle(title) == Strip(RStrip(Strip(LowerStr(title)), {"?"}))

RECURSIVE SectionsLoop(_, _, _, _, _)
SectionsLoop(lines, i, res, skip_section, section_level) ==
    IF i > Len(lines) THEN res
    ELSE LET line == lines[i]
         IN  IF Matches(HEADER, line, NoFlags)
             THEN LET current_level == HeaderLevel(line)
                      normalized_title == NormalizedTitle(HeaderTitle(line))
                  IN  IF current_level = 2 /\ normalized_title \in unwanted_titles
                      THEN SectionsLoop(lines, i + 1, res, TRUE, current_level)
                      ELSE IF skip_section
                      THEN (IF current_level <= section_level
                            THEN SectionsLoop(lines, i + 1, Append(res, line), FALSE, 0)
                            ELSE SectionsLoop(lines, i + 1, res, skip_section, section_level))
                      ELSE SectionsLoop(lines, i + 1, Append(res, line), skip_section,
                                        section_level)
             ELSE IF ~skip_section
                  THEN SectionsLoop(lines, i + 1, Append(res, line), skip_section,
                                    section_level)
                  ELSE SectionsLoop(lines, i + 1, res, skip_section, section_level)

remove_unwanted_sections(markdown_text) ==
    The({Join(kept, NL) :
            kept \in {SectionsLoop(Split(markdown_text, NL), 1, <<>>, FALSE, 0)}})

(***************************************************************************)
(* deduplicate_nested_callouts (url2md.py:819-904).                        *)
(***************************************************************************)

\* "Check next few lines for nested callouts": j < i + 10
LookaheadLines == 10

\* r'^(>+)\s*\[!(\w+)\](.*)$'
MARKER ==
    Cat(<<Bol, Plus(Chr(">")), Star(In(WS)), Lit(<<"[", "!">>), Plus(In(WordChars)),
          Chr("]"), Star(Dot), Eol>>)
\* r'^(>)\s+(>+)\s*(.*)$'
NESTED_QUOTE ==
    Cat(<<Bol, Chr(">"), Plus(In(WS)), Plus(Chr(">")), Star(In(WS)), Star(Dot), Eol>>)

\* len(match.group(1)): '[' must follow the '>' and the whitespace, so group 1
\* is the whole run of '>' the line starts with
QuoteLevel(line) == Len(line) - Len(LStrip(line, {">"}))
\* nested_match.group(3): every quantifier before it is greedy and (.*)
\* takes the rest, so nothing is given back
NestedContent(line) == LStrip(LStrip(LStrip(Tail(line), WS), {">"}), WS)

\* the inner while loop: the index of the deeper marker found from line j on,
\* 0 when the search stops without one
RECURSIVE Lookahead(_, _, _, _)
Lookahead(lines, i, j, quote_level) ==
    IF ~(j <= Len(lines) /\ j < i + LookaheadLines) THEN 0
    ELSE IF Matches(MARKER, lines[j], NoFlags)
         THEN (IF QuoteLevel(lines[j]) > quote_level THEN j ELSE 0)
         ELSE IF ~StartsWith(lines[j], <<">">>) THEN 0
         ELSE Lookahead(lines, i, j + 1, quote_level)

\* for k in range(i + 1, j): the non-blank lines that do not start with '>'
Interleaved(lines, i, j) ==
    SelectSeq(SubSeq(lines, i + 1, j - 1),
              LAMBDA l : Strip(l) # <<>> /\ ~StartsWith(l, <<">">>))

RECURSIVE CalloutLoop(_, _, _)
CalloutLoop(lines, i, res) ==
    IF i > Len(lines) THEN res
    ELSE LET line == lines[i]
         IN  IF Matches(MARKER, line, NoFlags)
             THEN The({IF j # 0
                       THEN CalloutLoop(lines, j, res \o Interleaved(lines, i, j))
                       ELSE CalloutLoop(lines, i + 1, Append(res, line)) :
                          j \in {Lookahead(lines, i, i + 1, QuoteLevel(line))}})
             ELSE IF Matches(NESTED_QUOTE, line, NoFlags)
                  THEN CalloutLoop(lines, i + 1,
                                   Append(res, <<">", " ">> \o NestedContent(line)))
                  ELSE CalloutLoop(lines, i + 1, Append(res, line))

deduplicate_nested_callouts(markdown_text) ==
    The({Join(kept, NL) :
            kept \in {CalloutLoop(Split(markdown_text, NL), 1, <<>>)}})


\* web_to_md.remove_first_h1: the same two statements
web_remove_first_h1(markdown_text) ==
    LStrip(Sub(FIRST_H1, Delete, markdown_text, 1, ML), {NL})

(***************************************************************************)
(* Documents the post-processing is run on.                                *)
(***************************************************************************)

\* a fence whose only line is a comment
\* ```\n# c\n```
T_fence_comment ==
    <<"backtick", "backtick", "backtick", "\n", "#", " ", "c", "\n", "backtick",
      "backtick", "backtick">>
\* a fence with irregular indentation and embedded blank lines
\* p\n\n```\n  x\n\n y\n```\nfoo
T_fence_indent ==
    <<"p", "\n", "\n", "backtick", "backtick", "backtick", "\n", " ", " ", "x", "\n", "\n",
      " ", "y", "\n", "backtick", "backtick", "backtick", "\n", "f", "o", "o">>
T_two_h1 == <<"#", " ", "A", "\n", "#", " ", "B">>
\* # T\n\ntext\n\n```\nx\n\n\n\ny\n```\nend
T_page ==
    <<"#", " ", "T", "\n", "\n", "t", "e", "x", "t", "\n", "\n", "backtick", "backtick",
      "backtick", "\n", "x", "\n", "\n", "\n", "\n", "y", "\n", "backtick", "backtick",
      "backtick", "\n", "e", "n", "d">>
\* abc\n```\nx\n```\nfoo
T_fence_between ==
    <<"a", "b", "c", "\n", "backtick", "backtick", "backtick", "\n", "x", "\n", "backtick",
      "backtick", "backtick", "\n", "f", "o", "o">>
T_broken_word == <<"e", "f", "f", "i", "\n", "c", "a", "c", "e">>
\* # T\nhigh\na b c\nReal text.
T_metadata ==
    <<"#", " ", "T", "\n", "h", "i", "g", "h", "\n", "a", " ", "b", " ", "c", "\n", "R",
      "e", "a", "l", " ", "t", "e", "x", "t", ".">>
\* # T\n## Testez vos connaissances\nq\n## Next\nkeep
T_quiz ==
    <<"#", " ", "T", "\n", "#", "#", " ", "T", "e", "s", "t", "e", "z", " ", "v", "o", "s",
      " ", "c", "o", "n", "n", "a", "i", "s", "s", "a", "n", "c", "e", "s", "\n", "q",
      "\n", "#", "#", " ", "N", "e", "x", "t", "\n", "k", "e", "e", "p">>
\* > [!NOTE]\n>\n> > [!NOTE]\n> > Content
T_nested_note ==
    <<">", " ", "[", "!", "N", "O", "T", "E", "]", "\n", ">", "\n", ">", " ", ">", " ",
      "[", "!", "N", "O", "T", "E", "]", "\n", ">", " ", ">", " ", "C", "o", "n", "t", "e",
      "n", "t">>
T_blank_runs == <<"a", "\n", "\n", "\n", "\n", "b", " ", " ", "\n">>
\* x\n```a```\n```b```\ny
T_two_fences ==
    <<"x", "\n", "backtick", "backtick", "backtick", "a", "backtick", "backtick",
      "backtick", "\n", "backtick", "backtick", "backtick", "b", "backtick", "backtick",
      "backtick", "\n", "y">>
T_clean == <<"#", " ", "T", "\n", "\n", "T", "e", "x", "t", ".", "\n">>

ChainInputs ==
    {T_fence_comment, T_fence_indent, T_two_h1, T_page, T_fence_between, T_broken_word,
     T_metadata, T_quiz, T_nested_note, T_blank_runs, T_two_fences, T_clean}

T_empty_h1 == <<"#", "\n", "b", "o", "d", "y">>
T_empty_h1_sub == <<"#", " ", "\n", "#", "#", " ", "S">>
\* intro\n# T\nbody\n# U
T_h1_inside ==
    <<"i", "n", "t", "r", "o", "\n", "#", " ", "T", "\n", "b", "o", "d", "y", "\n", "#",
      " ", "U">>
T_h1_twice == <<"#", " ", "T", "\n", "#", " ", "U", "\n", "x">>
T_h1_after_blank == <<"\n", "\n", "#", " ", "T", "\n", "x">>
T_no_h1 == <<"n", "o", " ", "h", "e", "a", "d", "i", "n", "g", "\n", "\n", "x">>
\* > [!NOTE]\n> > [!NOTE]\n> > Content
T_nested_note_tight ==
    <<">", " ", "[", "!", "N", "O", "T", "E", "]", "\n", ">", " ", ">", " ", "[", "!", "N",
      "O", "T", "E", "]", "\n", ">", " ", ">", " ", "C", "o", "n", "t", "e", "n", "t">>
\* > [!NOTE]\n>\n>> [!NOTE]\n>> Content
T_nested_note_close ==
    <<">", " ", "[", "!", "N", "O", "T", "E", "]", "\n", ">", "\n", ">", ">", " ", "[",
      "!", "N", "O", "T", "E", "]", "\n", ">", ">", " ", "C", "o", "n", "t", "e", "n", "t">>
\* > [!NOTE]\n>> [!NOTE]\n>> Content
T_nested_note_close_tight ==
    <<">", " ", "[", "!", "N", "O", "T", "E", "]", "\n", ">", ">", " ", "[", "!", "N", "O",
      "T", "E", "]", "\n", ">", ">", " ", "C", "o", "n", "t", "e", "n", "t">>
\* > [!NOTE]\n>> [!TIP]\n>> x\ny
T_note_tip ==
    <<">", " ", "[", "!", "N", "O", "T", "E", "]", "\n", ">", ">", " ", "[", "!", "T", "I",
      "P", "]", "\n", ">", ">", " ", "x", "\n", "y">>
\* > [!NOTE]\n> Content
T_note ==
    <<">", " ", "[", "!", "N", "O", "T", "E", "]", "\n", ">", " ", "C", "o", "n", "t", "e",
      "n", "t">>
\* ## Controle des connaissances\nq\n## N
T_quiz_capital ==
    <<"#", "#", " ", "C", "o", "n", "t", "r", "o-circ", "l", "e", " ", "d", "e", "s", " ",
      "c", "o", "n", "n", "a", "i", "s", "s", "a", "n", "c", "e", "s", "\n", "q", "\n",
      "#", "#", " ", "N">>
\* ## Ce site vous est utile ?\nq\n# N\nz
T_useful ==
    <<"#", "#", " ", "C", "e", " ", "s", "i", "t", "e", " ", "v", "o", "u", "s", " ", "e",
      "s", "t", " ", "u", "t", "i", "l", "e", " ", "?", "\n", "q", "\n", "#", " ", "N",
      "\n", "z">>
\* ## Testez vos connaissances ?\nq\n### s\nx\n## Next
T_quiz_sub ==
    <<"#", "#", " ", "T", "e", "s", "t", "e", "z", " ", "v", "o", "s", " ", "c", "o", "n",
      "n", "a", "i", "s", "s", "a", "n", "c", "e", "s", " ", "?", "\n", "q", "\n", "#",
      "#", "#", " ", "s", "\n", "x", "\n", "#", "#", " ", "N", "e", "x", "t">>
\* a\n## Ce que vous allez apprendre\nq\n### s\n## N\nz
T_learn ==
    <<"a", "\n", "#", "#", " ", "C", "e", " ", "q", "u", "e", " ", "v", "o", "u", "s", " ",
      "a", "l", "l", "e", "z", " ", "a", "p", "p", "r", "e", "n", "d", "r", "e", "\n", "q",
      "\n", "#", "#", "#", " ", "s", "\n", "#", "#", " ", "N", "\n", "z">>
T_blank_2 == <<"a", "\n", "\n", "b">>
T_blank_3 == <<"a", "\n", "\n", "\n", "b">>
T_blank_4 == <<"a", "\n", "\n", "\n", "\n", "b">>
T_blank_mixed == <<"a", "\n", " ", "\n", "\t", "\n", "\n", "b">>
\* [Aller au contenu](#c)\n[Fenetre de terminal](#t)\nk
T_links ==
    <<"[", "A", "l", "l", "e", "r", " ", "a", "u", " ", "c", "o", "n", "t", "e", "n", "u",
      "]", "(", "#", "c", ")", "\n", "[", "F", "e", "n", "e-circ", "t", "r", "e", " ", "d",
      "e", " ", "t", "e", "r", "m", "i", "n", "a", "l", "]", "(", "#", "t", ")", "\n", "k">>
\* > [!TIP]\n>\n> Glissez pour voir\nrest
T_glissez ==
    <<">", " ", "[", "!", "T", "I", "P", "]", "\n", ">", "\n", ">", " ", "G", "l", "i",
      "s", "s", "e", "z", " ", "p", "o", "u", "r", " ", "v", "o", "i", "r", "\n", "r", "e",
      "s", "t">>

CallInputs ==
    ChainInputs \cup
    {T_empty_h1, T_empty_h1_sub, T_h1_inside, T_h1_twice, T_h1_after_blank, T_no_h1,
     T_nested_note_tight, T_nested_note_close, T_nested_note_close_tight, T_note_tip,
     T_note, T_quiz_capital, T_useful, T_quiz_sub, T_learn, T_blank_2, T_blank_3,
     T_blank_4, T_blank_mixed, T_links, T_glissez}

\* the last digit of a uuid either is a letter or is not
TailInputs == {"7", "a"}
\* the code blocks of a text, whatever the placeholders
CodeBlocks(s) == ExtractCodeBlocks(s, [k \in DOMAIN BlockIds |-> "0"]).blocks
\* the last digits uuid4 may draw for the placeholders of a text
Tails(s) == [1..Len(CodeBlocks(s)) -> TailInputs]

(***************************************************************************)
(* The chain of scrape_to_markdown, one step at a time.  pc names the step *)
(* to run; md_in is the text the run began with; run_out holds the outputs *)
(* of the runs made.                                                       *)
(***************************************************************************)

MaxRuns == 2

ChainStep(from, to, out) ==
    /\ pc = from
    /\ markdown' = out
    /\ pc' = to
    /\ UNCHANGED <<md_in, run_out>>
    /\ UNCHANGED queueVars /\ UNCHANGED sitemapVars /\ UNCHANGED runVars

\* markdown = fix_broken_words(markdown)
chain_fix_broken_words ==
    \E tails \in Tails(markdown) :
        ChainStep("fix_broken_words", "remove_unwanted_links",
                  fix_broken_words(markdown, tails))
\* markdown = remove_unwanted_links(markdown)
chain_remove_unwanted_links ==
    ChainStep("remove_unwanted_links", "remove_initial_metadata",
              remove_unwanted_links(markdown))
\* markdown = remove_initial_metadata(markdown)
chain_remove_initial_metadata ==
    ChainStep("remove_initial_metadata", "remove_unwanted_sections",
              remove_initial_metadata(markdown))
\* markdown = remove_unwanted_sections(markdown)
chain_remove_unwanted_sections ==
    ChainStep("remove_unwanted_sections", "deduplicate_nested_callouts",
              remove_unwanted_sections(markdown))
\* markdown = deduplicate_nested_callouts(markdown)
chain_deduplicate_nested_callouts ==
    ChainStep("deduplicate_nested_callouts", "clean_markdown_output",
              deduplicate_nested_callouts(markdown))
\* markdown = clean_markdown_output(markdown)
chain_clean_markdown_output ==
    \E tails \in Tails(markdown) :
        ChainStep("clean_markdown_output", "remove_first_h1",
                  clean_markdown_output(markdown, tails))
\* markdown = remove_first_h1(markdown)
chain_remove_first_h1 ==
    ChainStep("remove_first_h1", "second_pass", remove_first_h1(markdown))
\* the second pass: markdown = fix_broken_words(markdown); the chain is over
chain_second_pass ==
    /\ pc = "second_pass"
    /\ \E tails \in Tails(markdown) : markdown' = fix_broken_words(markdown, tails)
    /\ pc' = "done"
    /\ run_out' = Append(run_out, markdown')
    /\ UNCHANGED md_in
    /\ UNCHANGED queueVars /\ UNCHANGED sitemapVars /\ UNCHANGED runVars
\* the chain is run again, on its own output
chain_again ==
    /\ pc = "done"
    /\ Len(run_out) < MaxRuns
    /\ pc' = "fix_broken_words"
    /\ md_in' = markdown
    /\ UNCHANGED <<markdown, run_out>>
    /\ UNCHANGED queueVars /\ UNCHANGED sitemapVars /\ UNCHANGED runVars

InitChain ==
    /\ markdown \in ChainInputs
    /\ md_in = markdown
    /\ pc = "fix_broken_words"
    /\ run_out = <<>>
    /\ QueueIdle
    /\ SitemapIdle
    /\ RunIdle

NextChain ==
    \/ chain_fix_broken_words
    \/ chain_remove_unwanted_links
    \/ chain_remove_initial_metadata
    \/ chain_remove_unwanted_sections
    \/ chain_deduplicate_nested_callouts
    \/ chain_clean_markdown_output
    \/ chain_remove_first_h1
    \/ chain_second_pass
    \/ chain_again

SpecChain == InitChain /\ [][NextChain]_vars

(***************************************************************************)
(* The post-processing functions called one at a time, in any order.  pc   *)
(* names the function called last, md_in is the text it was given and      *)
(* markdown the text it returned.                                          *)
(***************************************************************************)

MaxCalls == 2

Called(name, out) ==
    /\ Len(run_out) < MaxCalls
    /\ md_in' = markdown
    /\ markdown' = out
    /\ pc' = name
    /\ run_out' = Append(run_out, out)
    /\ UNCHANGED queueVars /\ UNCHANGED sitemapVars /\ UNCHANGED runVars

call_fix_broken_words ==
    \E tails \in Tails(markdown) :
        Called("fix_broken_words", fix_broken_words(markdown, tails))
call_clean_markdown_output ==
    \E tails \in Tails(markdown) :
        Called("clean_markdown_output", clean_markdown_output(markdown, tails))
call_remove_first_h1 == Called("remove_first_h1", remove_first_h1(markdown))
call_remove_unwanted_links ==
    Called("remove_unwanted_links", remove_unwanted_links(markdown))
call_remove_initial_metadata ==
    Called("remove_initial_metadata", remove_initial_metadata(markdown))
call_remove_unwanted_sections ==
    Called("remove_unwanted_sections", remove_unwanted_sections(markdown))
call_deduplicate_nested_callouts ==
    Called("deduplicate_nested_callouts", deduplicate_nested_callouts(markdown))
call_web_fix_broken_words ==
    Called("web_fix_broken_words", web_fix_broken_words(markdown))
call_web_clean_markdown_output ==
    Called("web_clean_markdown_output", web_clean_markdown_output(markdown))
call_web_remove_first_h1 ==
    Called("web_remove_first_h1", web_remove_first_h1(markdown))

InitCalls ==
    /\ markdown \in CallInputs
    /\ md_in = markdown
    /\ pc = "input"
    /\ run_out = <<>>
    /\ QueueIdle
    /\ SitemapIdle
    /\ RunIdle

NextCalls ==
    \/ call_fix_broken_words
    \/ call_clean_markdown_output
    \/ call_remove_first_h1
    \/ call_remove_unwanted_links
    \/ call_remove_initial_metadata
    \/ call_remove_unwanted_sections
    \/ call_deduplicate_nested_callouts
    \/ call_web_fix_broken_words
    \/ call_web_clean_markdown_output
    \/ call_web_remove_first_h1

SpecCalls == InitCalls /\ [][NextCalls]_vars

(***************************************************************************)
(* Claims about the text post-processing.                                  *)
(***************************************************************************)

\* C6: when the chain of scrape_to_markdown has run, the fenced code blocks
\* of its output are, one for one, the fenced code blocks of its input.
C6_CodeBlocksUnchanged ==
    pc = "done" => CodeBlocks(markdown) = CodeBlocks(md_in)

\* C7: the chain run on its own output returns that output unchanged: the
\* second run's output is the first run's.
C7_ChainIdempotent ==
    Len(run_out) >= 2 => run_out[2] = run_out[1]

\* s holds sub
Contains(s, sub) ==
    \E p \in 1..(Len(s) - Len(sub) + 1) : SubSeq(s, p, p + Len(sub) - 1) = sub
LinesWith(s, sub) == SelectSeq(Split(s, NL), LAMBDA l : Contains(l, sub))
\* the number of '>' a line is quoted with
QuoteDepth(l) ==
    LET quote == SubSeq(l, 1, RunLength(In({">", " "}), l, 1, NoFlags))
    IN  Len(SelectSeq(quote, LAMBDA c : c = ">"))

NOTE_MARKER == <<"[", "!", "N", "O", "T", "E", "]">>
CONTENT == <<"C", "o", "n", "t", "e", "n", "t">>
\* a [!NOTE] callout that holds a [!NOTE] callout one '>' deeper, in the two
\* spellings of a nested quote, with and without the empty quoted line
NestedNoteInputs ==
    {T_nested_note, T_nested_note_tight, T_nested_note_close, T_nested_note_close_tight}

\* C8: deduplicate_nested_callouts given a [!NOTE] callout nested in a
\* [!NOTE] callout returns one marker line, and the inner content at quote
\* depth one instead of two.
C8_OneMarkerContentPromoted ==
    (pc = "deduplicate_nested_callouts" /\ md_in \in NestedNoteInputs)
        => /\ Len(LinesWith(markdown, NOTE_MARKER)) = 1
           /\ LinesWith(markdown, CONTENT) # <<>>
           /\ \A k \in DOMAIN LinesWith(markdown, CONTENT) :
                 QuoteDepth(LinesWith(markdown, CONTENT)[k]) = 1

\* a level-1 heading line: '# Title'
IsH1(l) ==
    /\ Len(l) >= 3
    /\ l[1] = "#"
    /\ l[2] \in {" ", "\t"}
    /\ Strip(SubSeq(l, 3, Len(l))) # <<>>
NonBlankLines(s) == SelectSeq(Split(s, NL), LAMBDA l : Strip(l) # <<>>)
WithoutFirstH1(lines) ==
    LET at == {k \in DOMAIN lines : IsH1(lines[k])}
    IN  IF at = {} THEN lines
        ELSE SubSeq(lines, 1, Min(at) - 1) \o SubSeq(lines, Min(at) + 1, Len(lines))



\* C9: one call of remove_first_h1 takes the first level-1 heading line out
\* and leaves every other non-blank line, in order.
C9_OnlyFirstH1Removed ==
    pc \in {"remove_first_h1", "web_remove_first_h1"}
        => NonBlankLines(markdown) = WithoutFirstH1(NonBlankLines(md_in))

\* the line is a heading of level 2 whose title, in lowercase and without
\* the '?' at its end, is one of the titles of the denylist, whatever their case
IsUnwantedHeading(l) ==
    /\ Matches(HEADER, l, NoFlags)
    /\ HeaderLevel(l) = 2
    /\ \E entry \in unwanted_titles : NormalizedTitle(HeaderTitle(l)) = LowerStr(entry)
\* the lines outside the sections that begin with an unwanted heading and
\* end before the next heading of level 2 or 1
OutsideUnwantedSections(lines) ==
    LET ends(k) == Matches(HEADER, lines[k], NoFlags) /\ HeaderLevel(lines[k]) <= 2
        removed(i) == \E j \in 1..i : /\ IsUnwantedHeading(lines[j])
                                       /\ \A k \in (j + 1)..i : ~ends(k)
    IN  SelectSeq([i \in DOMAIN lines |-> <<i, lines[i]>>], LAMBDA il : ~removed(il[1]))

\* C17: remove_unwanted_sections takes out every level-2 heading whose
\* normalized title is on the denylist, compared without regard to case, with
\* the lines after it up to the next heading of level 2 or shallower, and
\* keeps every other line, in order.
C17_UnwantedSectionsRemoved ==
    pc = "remove_unwanted_sections"
        => markdown
              = Join([i \in DOMAIN OutsideUnwantedSections(Split(md_in, NL)) |->
                         OutsideUnwantedSections(Split(md_in, NL))[i][2]], NL)

(***************************************************************************)
(* parse_sitemap (url2md.py:1075-1141), one call frame at a time.          *)
(* site gives, for each sitemap location, what fetching and parsing it     *)
(* yields; stack holds the frames of the calls in progress, the innermost  *)
(* last; result is what the outermost call returned.                       *)
(***************************************************************************)

\* a fetched and parsed document: the text of the <loc> of each <sitemap>
\* tag and of each <url> tag (NoUrl for a tag without <loc> or with an empty
\* one); ok is false when requests.get or raise_for_status raises
Doc(ok, sitemap_tags, url_tags) ==
    [ok |-> ok, sitemap_tags |-> sitemap_tags, url_tags |-> url_tags]
SitemapIndex(locs) == Doc(TRUE, locs, <<>>)
UrlSet(locs) == Doc(TRUE, <<>>, locs)
FetchError == Doc(FALSE, <<>>, <<>>)

P_docs == <<"/", "d", "o", "c", "s", "/", "x">>
P_sitemap == <<"/", "s", ".", "x", "m", "l">>
P_sitemap_a == <<"/", "a", ".", "x", "m", "l">>
P_sitemap_b == P_blog_s \o <<"b", ".", "x", "m", "l">>
P_sitemap_c == <<"/", "c", ".", "x", "m", "l">>

Page(path) == Url("https", "example.com", path, "", "", "")
SM_root == Page(P_sitemap)
SM_a == Page(P_sitemap_a)
SM_b == Page(P_sitemap_b)
SM_c == Page(P_sitemap_c)
SitemapLocs == {SM_root, SM_a, SM_b, SM_c}

Urls_a == <<Page(P_post), Page(P_docs), Page(P_blog2_post)>>
Urls_b == <<Page(P_blog_s), Page(P_post_s), Page(P_blog)>>

\* an index of two sitemaps of three URLs each
Site_2x3 ==
    [l \in SitemapLocs |->
        CASE l = SM_root -> SitemapIndex(<<SM_a, SM_b>>)
          [] l = SM_a -> UrlSet(Urls_a)
          [] l = SM_b -> UrlSet(Urls_b)
          [] OTHER -> FetchError]
\* an index with a tag without <loc> and a sitemap that cannot be fetched
Site_failing_child ==
    [l \in SitemapLocs |->
        CASE l = SM_root -> SitemapIndex(<<SM_a, NoUrl, SM_c, SM_b>>)
          [] l = SM_a -> UrlSet(Urls_a)
          [] l = SM_b -> UrlSet(Urls_b)
          [] OTHER -> FetchError]
\* an index of an index
Site_nested ==
    [l \in SitemapLocs |->
        CASE l = SM_root -> SitemapIndex(<<SM_a, SM_b>>)
          [] l = SM_a -> SitemapIndex(<<SM_c>>)
          [] l = SM_b -> UrlSet(Urls_b)
          [] OTHER -> UrlSet(Urls_a)]
\* a simple sitemap, with a <url> tag without <loc>
Site_simple ==
    [l \in SitemapLocs |->
        CASE l = SM_root -> UrlSet(<<Page(P_post), NoUrl, Page(P_docs)>>)
          [] OTHER -> FetchError]
\* a sitemap that cannot be fetched
Site_down == [l \in SitemapLocs |-> FetchError]
\* an index that names itself through one of its sitemaps
Site_cycle ==
    [l \in SitemapLocs |->
        CASE l = SM_root -> SitemapIndex(<<SM_b, SM_a>>)
          [] l = SM_a -> SitemapIndex(<<SM_root>>)
          [] l = SM_b -> UrlSet(Urls_b)
          [] OTHER -> FetchError]
\* an index that names itself, and a sitemap
Site_self ==
    [l \in SitemapLocs |->
        CASE l = SM_root -> SitemapIndex(<<SM_root, SM_b>>)
          [] l = SM_b -> UrlSet(Urls_b)
          [] OTHER -> FetchError]
\* a document with <sitemap> tags and <url> tags
Site_mixed ==
    [l \in SitemapLocs |->
        CASE l = SM_root -> Doc(TRUE, <<SM_b>>, Urls_a)
          [] l = SM_b -> UrlSet(Urls_b)
          [] OTHER -> FetchError]

SiteInputs ==
    {Site_2x3, Site_failing_child, Site_nested, Site_simple, Site_down, Site_cycle,
     Site_self, Site_mixed}

\* filter_path: a path prefix, or <<>> for None and for '', which
\* `if filter_path:` does not tell apart
NoFilter == <<>>
FilterInputs == {NoFilter, P_blog_s, P_blog, P_docs}

\* the frames parse_sitemap may nest: the recursion limit of the interpreter
\* (1000 frames by default), scaled down
MaxStack == 3

\* state "call": the call has begun; state "loop": in the loop over
\* sitemap_tags, at tag i, with urls collected so far
Frame(url, state, i, collected) ==
    [url |-> url, state |-> state, i |-> i, urls |-> collected]
NoResult == [returned |-> FALSE, urls |-> <<>>]

Top == stack[Len(stack)]
SetTop(frame) == SubSeq(stack, 1, Len(stack) - 1) \o <<frame>>

\* `if loc and loc.text`
HasLoc_in_filter(loc) ==
    loc # NoUrl /\ (filter_path = NoFilter \/ StartsWith(loc.path, filter_path))
HasLoc(loc) == loc # NoUrl

\* the loop over url_tags: the <loc> of every tag that has one and, when a
\* filter is given, whose path starts with it
KeepUrl(url) ==
    HasLoc(url) /\ (filter_path # NoFilter => StartsWith(url.path, filter_path))
SimpleSitemapUrls(url_tags) == SelectSeq(url_tags, KeepUrl)

\* `return v` of the innermost call: to the caller's urls.extend(sub_urls),
\* which goes on with its next tag, or out of the outermost call
Return(v) ==
    IF Len(stack) = 1
    THEN /\ stack' = <<>>
         /\ result' = [returned |-> TRUE, urls |-> v]
    ELSE /\ stack' = SubSeq(stack, 1, Len(stack) - 2)
                        \o <<[stack[Len(stack) - 1] EXCEPT !.urls = @ \o v, !.i = @ + 1]>>
         /\ UNCHANGED result

SitemapStep ==
    /\ stack # <<>>
    /\ UNCHANGED <<site, filter_path>>
    /\ UNCHANGED queueVars /\ UNCHANGED textVars /\ UNCHANGED runVars

\* the same, were the failure of a sub-sitemap to fail the call that made it:
\* that call returns [] too
parse_sitemap_error_fails_parent ==
    /\ SitemapStep
    /\ Top.state = "call"
    /\ ~site[Top.url].ok
    /\ IF Len(stack) <= 2
       THEN /\ stack' = <<>>
            /\ result' = [returned |-> TRUE, urls |-> <<>>]
       ELSE /\ stack' = SubSeq(stack, 1, Len(stack) - 3)
                           \o <<[stack[Len(stack) - 2] EXCEPT !.i = @ + 1]>>
            /\ UNCHANGED result

\* the same, were the exception not caught: it leaves every call in progress
parse_sitemap_error_raises ==
    /\ SitemapStep
    /\ Top.state = "call"
    /\ ~site[Top.url].ok
    /\ stack' = <<>>
    /\ UNCHANGED result

\* requests.get or raise_for_status raises: except Exception, return []
parse_sitemap_error ==
    /\ SitemapStep
    /\ Top.state = "call"
    /\ ~site[Top.url].ok
    /\ Return(<<>>)

\* no <sitemap> tag: a simple sitemap, return its URLs
parse_sitemap_simple ==
    /\ SitemapStep
    /\ Top.state = "call"
    /\ site[Top.url].ok
    /\ site[Top.url].sitemap_tags = <<>>
    /\ Return(SimpleSitemapUrls(site[Top.url].url_tags))

\* <sitemap> tags: a sitemap index, enter the loop over them
parse_sitemap_index ==
    /\ SitemapStep
    /\ Top.state = "call"
    /\ site[Top.url].ok
    /\ site[Top.url].sitemap_tags # <<>>
    /\ stack' = SetTop([Top EXCEPT !.state = "loop", !.i = 1])
    /\ UNCHANGED result

\* sub_urls = parse_sitemap(loc.text.strip(), filter_path)
parse_sitemap_recurse ==
    /\ SitemapStep
    /\ Top.state = "loop"
    /\ Top.i <= Len(site[Top.url].sitemap_tags)
    /\ HasLoc(site[Top.url].sitemap_tags[Top.i])
    /\ Len(stack) < MaxStack
    /\ stack' = Append(stack, Frame(site[Top.url].sitemap_tags[Top.i], "call", 0, <<>>))
    /\ UNCHANGED result

\* the same call at the recursion limit: RecursionError, an Exception, is
\* raised in the call or under it, and caught by `except Exception` of the
\* call itself, which returns [] to the loop, or, when the handler of the call
\* has no frame left to print in, of the calling frame, which returns []
parse_sitemap_recursion_error_uncaught ==
    /\ SitemapStep
    /\ Top.state = "loop"
    /\ Top.i <= Len(site[Top.url].sitemap_tags)
    /\ HasLoc(site[Top.url].sitemap_tags[Top.i])
    /\ Len(stack) >= MaxStack
    /\ stack' = <<>>
    /\ UNCHANGED result
parse_sitemap_recursion_error ==
    /\ SitemapStep
    /\ Top.state = "loop"
    /\ Top.i <= Len(site[Top.url].sitemap_tags)
    /\ HasLoc(site[Top.url].sitemap_tags[Top.i])
    /\ Len(stack) >= MaxStack
    /\ \E caught_by \in {"call", "caller"} :
          IF caught_by = "call"
          THEN stack' = SetTop([Top EXCEPT !.i = @ + 1]) /\ UNCHANGED result
          ELSE Return(<<>>)

\* a <sitemap> tag without <loc>: the next tag
parse_sitemap_skip ==
    /\ SitemapStep
    /\ Top.state = "loop"
    /\ Top.i <= Len(site[Top.url].sitemap_tags)
    /\ ~HasLoc(site[Top.url].sitemap_tags[Top.i])
    /\ stack' = SetTop([Top EXCEPT !.i = @ + 1])
    /\ UNCHANGED result

\* the loop over sitemap_tags is over: return urls
parse_sitemap_return ==
    /\ SitemapStep
    /\ Top.state = "loop"
    /\ Top.i > Len(site[Top.url].sitemap_tags)
    /\ Return(Top.urls)

InitSitemap ==
    /\ site \in SiteInputs
    /\ filter_path \in FilterInputs
    /\ stack = <<Frame(SM_root, "call", 0, <<>>)>>
    /\ result = NoResult
    /\ QueueIdle
    /\ TextIdle
    /\ RunIdle

NextSitemap ==
    \/ parse_sitemap_error
    \/ parse_sitemap_simple
    \/ parse_sitemap_index
    \/ parse_sitemap_recurse
    \/ parse_sitemap_recursion_error
    \/ parse_sitemap_skip
    \/ parse_sitemap_return

SpecSitemap == InitSitemap /\ [][NextSitemap]_vars

\* every step of a call is taken in the end: requests.get has a timeout, and
\* the loops run over finite lists
SpecSitemapFair == SpecSitemap /\ WF_vars(NextSitemap)

(***************************************************************************)
(* Claims about parse_sitemap, checked under SpecSitemap.                  *)
(***************************************************************************)

\* the URLs listed under a location, in document order: those of a simple
\* sitemap, or those under each sitemap of an index, one after the other;
\* none for a document that cannot be fetched
RECURSIVE Leaves(_, _)
Leaves(loc, fuel) ==
    IF fuel = 0 \/ ~site[loc].ok THEN <<>>
    ELSE IF site[loc].sitemap_tags = <<>>
         THEN SelectSeq(site[loc].url_tags, LAMBDA t : t # NoUrl)
         ELSE LET tags == SelectSeq(site[loc].sitemap_tags, LAMBDA t : t # NoUrl)
                  under == [k \in 1..Len(tags) |-> Leaves(tags[k], fuel - 1)]
                  Concat[k \in 0..Len(tags)] ==
                      IF k = 0 THEN <<>> ELSE Concat[k - 1] \o under[k]
              IN  Concat[Len(tags)]

InFilter(url) == filter_path = NoFilter \/ StartsWith(url.path, filter_path)

\* C10: what parse_sitemap returns for a sitemap index is the URLs listed
\* under its sitemaps, in index order, less those whose path does not start
\* with the filter when one is given; without a filter an index of two
\* sitemaps of three URLs gives six URLs.
C10_IndexIsFlattened ==
    (result.returned /\ site[SM_root].sitemap_tags # <<>>)
        => /\ result.urls = SelectSeq(Leaves(SM_root, MaxStack), InFilter)
           /\ (site = Site_2x3 /\ filter_path = NoFilter) => Len(result.urls) = 6

\* an index of two sitemaps has been resolved under a filter that keeps some
\* of the six URLs and drops others, and that the location of the first
\* sitemap does not start with
C10_Witness ==
    /\ result.returned
    /\ site = Site_2x3
    /\ filter_path = P_blog_s
    /\ ~StartsWith(SM_a.path, filter_path)
    /\ result.urls = <<Page(P_post), Page(P_blog_s), Page(P_post_s)>>

MaxFilename == 100   \* title[:100]

\* title.strip('-')
StripDashes(s) == LStrip(RStrip(s, {"-"}), {"-"})

\* r'[^\w\s-]', r'[\s_:]+' and, in web_to_md.py, r'[\s_]+'
SPECIAL_CHARS == NotIn(WordChars \cup WS \cup {"-"})
SPACES == Plus(In(WS \cup {"_", ":"}))
WEB_SPACES == Plus(In(WS \cup {"_"}))

\* the steps of sanitize_filename after the two substitutions
LowerStripTruncate(title) ==
    LET stripped == StripDashes(LowerStr(title))
    IN  IF stripped # <<>> THEN SubSeq(stripped, 1, Min({Len(stripped), MaxFilename}))
        ELSE <<"u", "n", "t", "i", "t", "l", "e", "d">>

\* sanitize_filename(title) of url2md.py
sanitize_filename(title) ==
    LowerStripTruncate(
        Sub(SPACES, ReplLit(<<"-">>),
            Sub(SPECIAL_CHARS, ReplLit(<<>>), title, -1, NoFlags), -1, NoFlags))

\* sanitize_filename(title) of web_to_md.py
web_sanitize_filename(title) ==
    LowerStripTruncate(
        Sub(WEB_SPACES, ReplLit(<<"-">>),
            Sub(SPECIAL_CHARS, ReplLit(<<>>), title, -1, NoFlags), -1, NoFlags))

(***************************************************************************)
(* Titles.                                                                 *)
(***************************************************************************)

Title_article == <<"A", "r", "t", "i", "c", "l", "e", ":", " ", "P", "y", "t", "h", "o",
                   "n", " ", "T", "i", "p", "s", " ", "&", " ", "T", "r", "i", "c",
                   "k", "s">>
Title_hello == <<"H", "e", "l", "l", "o", " ", "W", "o", "r", "l", "d", "!">>
Title_colon == <<"a", ":", "b">>
Title_underscores == <<"_", "_", "_">>
Title_mixed == <<"a", "_", "b", " ", "c">>
Title_home == <<"H", "o", "m", "e">>
Title_dashes == <<"-", "a", "-">>
Title_empty == <<>>
Title_untitled == <<"u", "n", "t", "i", "t", "l", "e", "d">>
\* 101 characters, a space the hundredth
Title_long == [i \in 1..(MaxFilename - 1) |-> "a"] \o <<" ", "b">>

TitleInputs ==
    {Title_article, Title_hello, Title_colon, Title_underscores, Title_mixed,
     Title_home, Title_dashes, Title_empty, Title_untitled, Title_long}

(***************************************************************************)
(* Calls of sanitize_filename.                                             *)
(***************************************************************************)

MaxSanitized == 2    \* calls in one behaviour

\* sanitize_filename is called with a title; both modules' functions are
\* applied to it
call_sanitize_filename ==
    /\ Len(sanitized) < MaxSanitized
    /\ \E title \in TitleInputs :
          sanitized' = Append(sanitized, [title |-> title,
                                          name |-> sanitize_filename(title),
                                          web_name |-> web_sanitize_filename(title)])
    /\ UNCHANGED <<args, written>> /\ UNCHANGED loopVars
    /\ UNCHANGED queueVars /\ UNCHANGED textVars /\ UNCHANGED sitemapVars

InitSanitize ==
    /\ QueueIdle
    /\ TextIdle
    /\ SitemapIdle
    /\ RunIdle

NextSanitize == call_sanitize_filename

SpecSanitize == InitSanitize /\ [][NextSanitize]_vars

\* the separators the second substitution names
Separators == WS \cup {"_", ":"}

\* the title with each run of whitespace, colon and underscore made one dash,
\* in lowercase and without the dashes at its ends
Dashed(title) ==
    StripDashes(LowerStr(Sub(Plus(In(Separators)), ReplLit(<<"-">>), title, -1, NoFlags)))

\* a name sanitize_filename may return for the title, by its contract
IsSanitized(title, name) ==
    /\ name # <<>>
    /\ Len(name) <= MaxFilename
    /\ name = LowerStr(name)
    /\ name[1] # "-"
    /\ name[Len(name)] # "-"
    /\ \A i \in DOMAIN name : name[i] \in (WordChars \ {"_"}) \cup {"-"}
    /\ (\A i \in DOMAIN title : title[i] \in (WordChars \cup Separators))
          /\ Len(title) <= MaxFilename /\ Dashed(title) # <<>>
          => name = Dashed(title)
    /\ title = Title_article
          => name = <<"a", "r", "t", "i", "c", "l", "e", "-", "p", "y", "t", "h",
                      "o", "n", "-", "t", "i", "p", "s", "-", "t", "r", "i", "c",
                      "k", "s">>

\* C12: sanitize_filename returns, for every title, a non-empty lowercase
\* name of at most 100 characters that neither begins nor ends with a dash,
\* in which every run of whitespace, colon and underscore of the title has
\* become one dash and no other non-word character is left; the example
\* title gives "article-python-tips-tricks".
C12_SanitizedName ==
    \A i \in DOMAIN sanitized :
        /\ IsSanitized(sanitized[i].title, sanitized[i].name)
        /\ IsSanitized(sanitized[i].title, sanitized[i].web_name)

(***************************************************************************)
(* get_output_path (src/url2md.py:180-230) and the file scrape_to_markdown *)
(* writes (src/url2md.py:1548-1620).  An output path is the sequence of    *)
(* its components: output_dir, the host, the directories, the file name.   *)
(***************************************************************************)

INDEX == <<"i", "n", "d", "e", "x">>
UNTITLED == <<"u", "n", "t", "i", "t", "l", "e", "d">>
MD == <<".", "m", "d">>
OUTPUT == <<"o", "u", "t", "p", "u", "t">>

\* parsed.path.strip('/')
StripSlashes(path) == LStrip(RStrip(path, {"/"}), {"/"})

\* Path(*dir_parts): pathlib leaves the empty components out
PathOf(dir_parts) == SelectSeq(dir_parts, LAMBDA part : part # <<>>)

\* get_output_path(url, title, output_dir, use_path_name)
get_output_path(url, title, output_dir, use_path_name) ==
    LET path == StripSlashes(url.path)
        path_parts == Split(path, "/")
        dir_parts == SubSeq(path_parts, 1, Len(path_parts) - 1)
        last_part == path_parts[Len(path_parts)]
        file_base == IF last_part # <<>> THEN last_part ELSE INDEX
    IN  IF path = <<>>
        THEN <<output_dir, url.netloc,
               IF use_path_name THEN INDEX \o MD
               ELSE sanitize_filename(IF title # UNTITLED THEN title ELSE INDEX) \o MD>>
        ELSE <<output_dir, url.netloc>> \o PathOf(dir_parts)
                \o <<IF use_path_name THEN sanitize_filename(file_base) \o MD
                     ELSE sanitize_filename(IF title # UNTITLED THEN title
                                            ELSE file_base) \o MD>>

\* re.sub(r'[:]+', '-', title) of scrape_to_markdown
COLONS == Plus(In({":"}))

P_other == P_blog_s \o <<"o", "t", "h", "e", "r">>

PageInputs ==
    {Url("https", "example.com", P_post, "", "", ""),
     Url("https", "example.com", P_post_s, "", "", ""),
     Url("https", "example.com", P_post, "", "page=2", ""),
     Url("http", "example.com", P_post, "", "", ""),
     Url("https", "example.com", P_other, "", "", ""),
     Url("https", "example.com", P_root, "", "", ""),
     Url("https", "other.org", P_post, "", "", "")}

Title_guide == <<"G", "u", "i", "d", "e", ":", " ", "S", "e", "t", "u", "p">>
\* what extract_title may return for a page
PageTitles == {Title_home, Title_guide, Title_untitled}

MaxWritten == 2      \* files written in one behaviour

\* scrape_to_markdown(url, output_dir, use_path_name): the page is fetched,
\* its title extracted, and the converted text written to the output path,
\* over whatever file is there; a page that cannot be fetched or converted
\* raises and writes nothing
scrape_to_markdown ==
    /\ Len(written) < MaxWritten
    /\ \E url \in PageInputs, ok \in BOOLEAN, extracted \in PageTitles :
          LET title == Sub(COLONS, ReplLit(<<"-">>), extracted, -1, NoFlags)
              output_path == get_output_path(url, title, OUTPUT, args.use_path_name)
          IN  IF ok
              THEN written' = Append(written, [url |-> url, title |-> title,
                                               output_path |-> output_path])
              ELSE UNCHANGED written
    /\ UNCHANGED <<args, sanitized>> /\ UNCHANGED loopVars
    /\ UNCHANGED queueVars /\ UNCHANGED textVars /\ UNCHANGED sitemapVars

InitFiles ==
    /\ QueueIdle
    /\ TextIdle
    /\ SitemapIdle
    /\ args \in [use_path_name : BOOLEAN]
    /\ written = <<>>
    /\ sanitized = <<>>
    /\ LoopIdle

NextFiles == scrape_to_markdown

SpecFiles == InitFiles /\ [][NextFiles]_vars

\* C13: two distinct source urls converted in one run are never written to
\* the same output path, under either file name strategy.
C13_OneFilePerUrl ==
    \A i, j \in DOMAIN written :
        UrlString(written[i].url) # UrlString(written[j].url)
            => written[i].output_path # written[j].output_path

(***************************************************************************)
(* ScrapeStats (src/url2md.py:1293-1317) and the events of a run.          *)
(***************************************************************************)

ScrapeStats == [total |-> 0, successful |-> 0, failed |-> 0]
record_success(st) == [st EXCEPT !.successful = @ + 1]
\* the same, were a failure not counted
record_failure_forgotten(st) == st
record_failure(st) == [st EXCEPT !.failed = @ + 1]

\* requests.get(url) of a page, and whether the page was fetched and
\* converted (ok) or an exception was raised; time.sleep(delay)
Request(url, depth, ok) == [ev |-> "request", url |-> url, depth |-> depth, ok |-> ok]
Sleep == [ev |-> "sleep", url |-> <<>>, depth |-> 0, ok |-> TRUE]

\* the file scrape_to_markdown writes for a page with the extracted title
ScrapedFile(url, extracted, use_path_name) ==
    LET title == Sub(COLONS, ReplLit(<<"-">>), extracted, -1, NoFlags)
    IN  [url |-> url, title |-> title,
         output_path |-> get_output_path(url, title, OUTPUT, use_path_name)]

(***************************************************************************)
(* process_multiple_urls (src/url2md.py:1333-1378).                        *)
(***************************************************************************)

MaxBatch == 3        \* urls in the list

BatchUrls ==
    {Url("https", "example.com", P_post, "", "", ""),
     Url("https", "example.com", P_other, "", "", "")}

\* delay is compared with 0 only
DelayInputs == {0, 1}

BatchInputs == UNION {[1..n -> BatchUrls] : n \in 0..MaxBatch}

\* the try block of the loop body: scrape_to_markdown(url) and the record
\* of its outcome; an exception is raised again unless continue_on_error
batch_scrape_raises_always ==
    /\ run_pc = "loop"
    /\ current <= Len(args.urls)
    /\ \E ok \in BOOLEAN :
          LET url == args.urls[current]
          IN  /\ trace' = Append(trace, Request(UrlString(url), 0, ok))
              /\ IF ok
                 THEN /\ written' = Append(written,
                                           ScrapedFile(url, Title_home, args.use_path_name))
                      /\ stats' = record_success(stats)
                      /\ run_pc' = "rate"
                 ELSE /\ UNCHANGED written
                      /\ stats' = record_failure(stats)
                      /\ run_pc' = "raised"
    /\ UNCHANGED <<args, sanitized, current, discovered>>
    /\ UNCHANGED queueVars /\ UNCHANGED textVars /\ UNCHANGED sitemapVars
batch_scrape ==
    /\ run_pc = "loop"
    /\ current <= Len(args.urls)
    /\ \E ok \in BOOLEAN :
          LET url == args.urls[current]
          IN  /\ trace' = Append(trace, Request(UrlString(url), 0, ok))
              /\ IF ok
                 THEN /\ written' = Append(written,
                                           ScrapedFile(url, Title_home, args.use_path_name))
                      /\ stats' = record_success(stats)
                      /\ run_pc' = "rate"
                 ELSE /\ UNCHANGED written
                      /\ stats' = record_failure(stats)
                      /\ run_pc' = IF args.continue_on_error THEN "rate" ELSE "raised"
    /\ UNCHANGED <<args, sanitized, current, discovered>>
    /\ UNCHANGED queueVars /\ UNCHANGED textVars /\ UNCHANGED sitemapVars

\* "Delay between requests (except for last URL)", and the next i
batch_rate_limit ==
    /\ run_pc = "rate"
    /\ trace' = IF current < stats.total /\ args.delay > 0 THEN Append(trace, Sleep)
                ELSE trace
    /\ current' = current + 1
    /\ run_pc' = "loop"
    /\ UNCHANGED <<args, written, sanitized, stats, discovered>>
    /\ UNCHANGED queueVars /\ UNCHANGED textVars /\ UNCHANGED sitemapVars

\* the list is exhausted: return stats
batch_return ==
    /\ run_pc = "loop"
    /\ current > Len(args.urls)
    /\ run_pc' = "returned"
    /\ UNCHANGED <<args, written, sanitized, stats, trace, current, discovered>>
    /\ UNCHANGED queueVars /\ UNCHANGED textVars /\ UNCHANGED sitemapVars

\* process_multiple_urls(urls, output_dir, delay, continue_on_error,
\* use_path_name) up to its loop: stats.total = len(urls), i = 1
InitBatch ==
    /\ QueueIdle
    /\ TextIdle
    /\ SitemapIdle
    /\ args \in [fn : {"batch"}, urls : BatchInputs, delay : DelayInputs,
                 continue_on_error : BOOLEAN, use_path_name : {FALSE}]
    /\ written = <<>>
    /\ sanitized = <<>>
    /\ stats = [ScrapeStats EXCEPT !.total = Len(args.urls)]
    /\ trace = <<>>
    /\ run_pc = "loop"
    /\ current = 1
    /\ discovered = <<>>

NextBatch ==
    \/ batch_scrape
    \/ batch_rate_limit
    \/ batch_return

SpecBatch == InitBatch /\ [][NextBatch]_vars

\* the requests of the trace, in order
Requests == SelectSeq(trace, LAMBDA e : e.ev = "request")
Failures == SelectSeq(Requests, LAMBDA e : ~e.ok)

\* C14: in process_multiple_urls with continue_on_error a failure is counted
\* once and every url of the list is attempted, in order; without it the first
\* failure is counted, raised again, and is the last attempt of the run.
C14_FailureRecordedOnce ==
    /\ stats.failed = Len(Failures)
    /\ stats.successful = Len(Requests) - Len(Failures)
    /\ run_pc = "returned"
          => Requests = [i \in 1..Len(args.urls) |->
                            Request(UrlString(args.urls[i]), 0, Requests[i].ok)]
    /\ args.continue_on_error => run_pc # "raised"
    /\ ~args.continue_on_error /\ Failures # <<>>
          => /\ run_pc = "raised"
             /\ Len(Failures) = 1
             /\ trace[Len(trace)] = Failures[1]

\* with continue_on_error a run ended whose first url failed and whose last
\* url was converted
C14_Witness ==
    /\ args.continue_on_error
    /\ run_pc = "returned"
    /\ Len(Requests) = MaxBatch
    /\ ~Requests[1].ok
    /\ Requests[MaxBatch].ok
    /\ stats.failed = 1

\* without continue_on_error a run was ended by a failure with urls left
C14_RaisedEarly ==
    /\ ~args.continue_on_error
    /\ run_pc = "raised"
    /\ Len(Requests) < Len(args.urls)

(***************************************************************************)
(* crawl_by_path (src/url2md.py:1439-1513) and discover_urls_by_path       *)
(* (src/url2md.py:1381-1436), on a URLQueue.                               *)
(***************************************************************************)

\* urlparse of a url string that urlunparse made: the pieces after the host
\* up to the first of ';', '?' and '#' are the path
urlparse(s) ==
    LET marks == {k \in 4..Len(s) : s[k] \in {";", "?", "#"}}
        stop == IF marks = {} THEN Len(s) + 1 ELSE Min(marks)
        After(mark) == IF \E k \in marks : s[k] = mark
                       THEN s[(CHOOSE k \in marks : s[k] = mark) + 1] ELSE ""
    IN  Url(s[1], s[3], SubSeq(s, 4, stop - 1), After(";"), After("?"), After("#"))

P_deep == P_post \o <<"/", "d", "e", "e", "p">>
P_deeper == P_deep \o <<"/", "e", "r">>
P_about == P_blog_s \o <<"a", "b", "o", "u", "t">>

Here(path) == Url("https", "example.com", path, "", "", "")

\* the site crawled: the links extract_links finds on each page as it was
\* fetched, by the path of the page requested
Links(url) ==
    LET path == urlparse(url).path
    IN  IF path = P_blog
        THEN {Here(P_post), Here(P_other), Url("https", "other.org", P_post, "", "", ""),
              Here(P_about)}
        ELSE IF path = P_post THEN {Here(P_deep), Here(P_blog_s), Here(P_other)}
        ELSE IF path = P_other THEN {Here(P_post_s), Here(P_blog2_post)}
        ELSE IF path = P_deep THEN {Here(P_deeper)}
        ELSE {}

\* the anchors of each page that are inside an element clean_html removes
\* (nav, header, footer, ...): the menu of the blog links to the about page
Removed(url) ==
    IF urlparse(url).path = P_blog THEN {Here(P_about)} ELSE {}

\* the links extract_links finds on the document scrape_to_markdown returns:
\* the page after clean_html and convert_relative_to_absolute_urls, which
\* resolves each href against the url of the page, as extract_links does
CleanedLinks(url) == Links(url) \ Removed(url)

\* the links each loop feeds to the queue: discover_urls_by_path parses the
\* response itself, crawl_by_path takes the document of scrape_to_markdown
ExtractedLinks(fn, url) == IF fn = "crawl" THEN CleanedLinks(url) ELSE Links(url)

MaxUrlsArg == 2      \* the greatest max_urls tried
MaxCrawlDepth == 2   \* the greatest max_depth tried

CrawlSeeds == {Here(P_blog_s), Here(P_blog), Here(P_root), Here(P_empty)}

NoPage == [url |-> <<>>, depth |-> 0, links |-> {}]

\* queue.add(url, depth) of the loops; found_on is the page the link was
\* found on
queue_add(url, depth, found_on) ==
    /\ IF add_filters(url, depth)
       THEN /\ urls' = Append(urls, <<Normalize(url), depth>>)
            /\ visited' = visited \cup {Normalize(url)}
            /\ accepted' = Append(accepted, [url |-> url,
                                             entry |-> <<Normalize(url), depth>>,
                                             found_on |-> found_on])
       ELSE UNCHANGED <<urls, visited, accepted>>
    /\ UNCHANGED <<base_domain, base_path, max_depth, start_url, last, returned>>

\* the head of the while loop: the queue is not empty and the limit of urls
\* is not reached; url, depth = queue.get_next(), and the url is counted
crawl_limit_off_by_one ==
    /\ run_pc = "loop"
    /\ ~is_empty
    /\ ~(args.max_urls > 0
         /\ (IF args.fn = "crawl" THEN stats.total ELSE Len(discovered)) > args.max_urls)
    /\ urls' = Tail(urls)
    /\ returned' = Append(returned, Head(urls))
    /\ current' = [url |-> Head(urls)[1], depth |-> Head(urls)[2], links |-> {}]
    /\ IF args.fn = "crawl"
       THEN stats' = [stats EXCEPT !.total = @ + 1] /\ UNCHANGED discovered
       ELSE discovered' = Append(discovered, Head(urls)[1]) /\ UNCHANGED stats
    /\ run_pc' = "fetch"
    /\ UNCHANGED <<visited, base_domain, base_path, max_depth, start_url, last, accepted>>
    /\ UNCHANGED <<args, written, sanitized, trace>>
    /\ UNCHANGED textVars /\ UNCHANGED sitemapVars
crawl_get_next ==
    /\ run_pc = "loop"
    /\ ~is_empty
    /\ ~(args.max_urls > 0
         /\ (IF args.fn = "crawl" THEN stats.total ELSE Len(discovered)) >= args.max_urls)
    /\ urls' = Tail(urls)
    /\ returned' = Append(returned, Head(urls))
    /\ current' = [url |-> Head(urls)[1], depth |-> Head(urls)[2], links |-> {}]
    /\ IF args.fn = "crawl"
       THEN stats' = [stats EXCEPT !.total = @ + 1] /\ UNCHANGED discovered
       ELSE discovered' = Append(discovered, Head(urls)[1]) /\ UNCHANGED stats
    /\ run_pc' = "fetch"
    /\ UNCHANGED <<visited, base_domain, base_path, max_depth, start_url, last, accepted>>
    /\ UNCHANGED <<args, written, sanitized, trace>>
    /\ UNCHANGED textVars /\ UNCHANGED sitemapVars

\* the try block: the page is requested (and, in crawl_by_path, converted and
\* written); then its links are extracted unless the page is at the depth
\* limit.  An exception leaves the block: crawl_by_path counts a failure,
\* discover_urls_by_path passes.
crawl_extracts_at_limit ==
    /\ run_pc = "fetch"
    /\ \E ok \in BOOLEAN :
          LET extract == ok /\ (max_depth = 0 \/ current.depth <= max_depth)
          IN  /\ trace' = Append(trace, Request(current.url, current.depth, ok))
                             \o (IF extract
                                 THEN <<[ev |-> "extract", url |-> current.url,
                                         depth |-> current.depth, ok |-> TRUE,
                                         links |-> ExtractedLinks(args.fn, current.url)]>>
                                 ELSE <<>>)
              /\ current' = [current EXCEPT
                                !.links = IF extract
                                          THEN ExtractedLinks(args.fn, current.url)
                                          ELSE {}]
              /\ IF args.fn = "crawl"
                 THEN /\ stats' = IF ok THEN record_success(stats)
                                  ELSE record_failure(stats)
                      /\ written' = IF ok
                                    THEN Append(written,
                                                ScrapedFile(urlparse(current.url), Title_home,
                                                            args.use_path_name))
                                    ELSE written
                 ELSE UNCHANGED <<stats, written>>
    /\ run_pc' = "links"
    /\ UNCHANGED <<args, sanitized, discovered>>
    /\ UNCHANGED queueVars /\ UNCHANGED textVars /\ UNCHANGED sitemapVars
crawl_fetch ==
    /\ run_pc = "fetch"
    /\ \E ok \in BOOLEAN :
          LET extract == ok /\ (max_depth = 0 \/ current.depth < max_depth)
          IN  /\ trace' = Append(trace, Request(current.url, current.depth, ok))
                             \o (IF extract
                                 THEN <<[ev |-> "extract", url |-> current.url,
                                         depth |-> current.depth, ok |-> TRUE,
                                         links |-> ExtractedLinks(args.fn, current.url)]>>
                                 ELSE <<>>)
              /\ current' = [current EXCEPT
                                !.links = IF extract
                                          THEN ExtractedLinks(args.fn, current.url)
                                          ELSE {}]
              /\ IF args.fn = "crawl"
                 THEN /\ stats' = IF ok THEN record_success(stats)
                                  ELSE record_failure(stats)
                      /\ written' = IF ok
                                    THEN Append(written,
                                                ScrapedFile(urlparse(current.url), Title_home,
                                                            args.use_path_name))
                                    ELSE written
                 ELSE UNCHANGED <<stats, written>>
    /\ run_pc' = "links"
    /\ UNCHANGED <<args, sanitized, discovered>>
    /\ UNCHANGED queueVars /\ UNCHANGED textVars /\ UNCHANGED sitemapVars

\* for link in links: queue.add(link, depth + 1); links is a set, and the
\* order in which its urls come is any
crawl_add_link ==
    /\ run_pc = "links"
    /\ \E link \in current.links :
          /\ queue_add(link, current.depth + 1, <<current.url, current.depth>>)
          /\ current' = [current EXCEPT !.links = @ \ {link}]
    /\ UNCHANGED <<args, written, sanitized, stats, trace, run_pc, discovered>>
    /\ UNCHANGED textVars /\ UNCHANGED sitemapVars

\* the end of the loop body: crawl_by_path sleeps if the queue is not empty
\* and delay > 0; discover_urls_by_path does not sleep
crawl_rate_limit ==
    /\ run_pc = "links"
    /\ current.links = {}
    /\ trace' = IF args.fn = "crawl" /\ ~is_empty /\ args.delay > 0
                THEN Append(trace, Sleep) ELSE trace
    /\ run_pc' = "loop"
    /\ UNCHANGED <<args, written, sanitized, stats, current, discovered>>
    /\ UNCHANGED queueVars /\ UNCHANGED textVars /\ UNCHANGED sitemapVars

\* the same, were the loop to end at the limit of urls only
crawl_return_at_limit_only ==
    /\ run_pc = "loop"
    /\ args.max_urls > 0
    /\ (IF args.fn = "crawl" THEN stats.total ELSE Len(discovered)) >= args.max_urls
    /\ run_pc' = "returned"
    /\ UNCHANGED <<args, written, sanitized, stats, trace, current, discovered>>
    /\ UNCHANGED queueVars /\ UNCHANGED textVars /\ UNCHANGED sitemapVars

\* the loop ends: the queue is empty, or the limit of urls is reached
crawl_return ==
    /\ run_pc = "loop"
    /\ \/ is_empty
       \/ args.max_urls > 0
          /\ (IF args.fn = "crawl" THEN stats.total ELSE Len(discovered)) >= args.max_urls
    /\ run_pc' = "returned"
    /\ UNCHANGED <<args, written, sanitized, stats, trace, current, discovered>>
    /\ UNCHANGED queueVars /\ UNCHANGED textVars /\ UNCHANGED sitemapVars

\* queue.add(start_url, depth=0), the call before the loop
crawl_start ==
    /\ run_pc = "start"
    /\ queue_add(start_url, 0, <<None, None>>)
    /\ run_pc' = "loop"
    /\ UNCHANGED <<args, written, sanitized, stats, trace, current, discovered>>
    /\ UNCHANGED textVars /\ UNCHANGED sitemapVars

\* crawl_by_path(start_url, output_dir, max_depth, delay, max_urls,
\* use_path_name) and discover_urls_by_path(start_url, max_depth, max_urls),
\* which has no delay: queue = URLQueue(start_url, max_depth)
InitCrawl ==
    /\ \E seed \in CrawlSeeds, md \in 0..MaxCrawlDepth :
          /\ URLQueue_init(seed, md)
          /\ start_url = seed
    /\ last = NoCall
    /\ accepted = <<>>
    /\ returned = <<>>
    /\ TextIdle
    /\ SitemapIdle
    /\ args \in [fn : {"crawl", "discover"}, max_urls : 0..MaxUrlsArg,
                 delay : DelayInputs, use_path_name : {TRUE}]
    /\ args.fn = "discover" => args.delay = 0
    /\ written = <<>>
    /\ sanitized = <<>>
    /\ stats = ScrapeStats
    /\ trace = <<>>
    /\ run_pc = "start"
    /\ current = NoPage
    /\ discovered = <<>>

NextCrawl ==
    \/ crawl_start
    \/ crawl_get_next
    \/ crawl_fetch
    \/ crawl_add_link
    \/ crawl_rate_limit
    \/ crawl_return

SpecCrawl == InitCrawl /\ [][NextCrawl]_vars

\* the requests and the sleeps of the trace, in order
RequestsAndSleeps == SelectSeq(trace, LAMBDA e : e.ev \in {"request", "sleep"})

\* C15: with delay > 0, when the batch loop or the crawl loop has ended there
\* was one sleep between every two consecutive requests and none after the
\* last request, whatever ended the loop.
C15_SleepOnlyBetweenRequests ==
    args.delay > 0 /\ args.fn # "discover" /\ run_pc \in {"returned", "raised"}
        => /\ \A k \in DOMAIN RequestsAndSleeps :
                  RequestsAndSleeps[k].ev = (IF k % 2 = 1 THEN "request" ELSE "sleep")
           /\ RequestsAndSleeps # <<>>
                  => RequestsAndSleeps[Len(RequestsAndSleeps)].ev = "request"

(***************************************************************************)
(* main (src/url2md.py:1740-1874).                                         *)
(***************************************************************************)

\* "example.com/blog/post": urlparse finds neither scheme nor host in it
NoSchemeUrl ==
    Url("", "", <<"e", "x", "a", "m", "p", "l", "e", ".", "c", "o", "m">> \o P_post,
        "", "", "")
SitemapUrl == Here(<<"/", "s", "i", "t", "e", "m", "a", "p", ".", "x", "m", "l">>)

\* args.urls, and the urls of the lines of args.file (None without --file,
\* "missing" for a file that does not exist)
CliInputs == {<<>>, <<Here(P_blog_s)>>, <<SitemapUrl>>, <<NoSchemeUrl>>}
FileInputs == {None, "missing", <<>>, <<Here(P_post)>>, <<Here(P_post), NoSchemeUrl>>}

\* what parse_sitemap may return for a sitemap url, and
\* discover_urls_by_path for a seed
SitemapResults == {<<>>, <<Here(P_post)>>, <<Here(P_post), Here(P_other)>>}
DiscoveryResults(seed) == {<<>>, <<urlparse(Normalize(seed))>>,
                           <<urlparse(Normalize(seed)), Here(P_post)>>}

\* "if not parsed.scheme or not parsed.netloc" of the validation loop
IsInvalid(parsed) == parsed.scheme = "" \/ parsed.netloc = ""

\* sys.exit(code), or the end of main
Exit(code) ==
    /\ run_pc' = "exit"
    /\ current' = [current EXCEPT !.code = code]

MainStep ==
    /\ UNCHANGED <<args, written, sanitized, stats, discovered>>
    /\ UNCHANGED queueVars /\ UNCHANGED textVars /\ UNCHANGED sitemapVars

\* "1. From text file"
main_file ==
    /\ run_pc = "file"
    /\ IF args.file = None
       THEN run_pc' = "sitemap" /\ UNCHANGED current
       ELSE IF args.file = "missing" THEN Exit(1)
       ELSE /\ run_pc' = "sitemap"
            /\ current' = [current EXCEPT !.urls = @ \o args.file]
    /\ UNCHANGED trace
    /\ MainStep

\* "2. From sitemap" and "3. From CLI arguments": parse_sitemap requests
\* args.urls[0] (requests refuses a url without scheme before any request)
main_sitemap ==
    /\ run_pc = "sitemap"
    /\ IF args.sitemap
       THEN IF args.urls = <<>> THEN Exit(1) /\ UNCHANGED trace
            ELSE \E sitemap_urls \in (IF IsInvalid(args.urls[1]) THEN {<<>>}
                                      ELSE SitemapResults) :
                    /\ trace' = IF IsInvalid(args.urls[1]) THEN trace
                                ELSE Append(trace,
                                            Request(UrlString(args.urls[1]), 0,
                                                    sitemap_urls # <<>>))
                    /\ current' = [current EXCEPT !.urls = @ \o sitemap_urls]
                    /\ run_pc' = "validate"
       ELSE /\ current' = [current EXCEPT !.urls = @ \o args.urls]
            /\ run_pc' = "validate"
            /\ UNCHANGED trace
    /\ MainStep

\* "Check that we have at least one URL" and "Validate URLs"
main_validate ==
    /\ run_pc = "validate"
    /\ IF current.urls = <<>> \/ \E i \in DOMAIN current.urls : IsInvalid(current.urls[i])
       THEN Exit(1)
       ELSE /\ run_pc' = "confirm"
            /\ current' = [current EXCEPT !.validated = TRUE]
    /\ UNCHANGED trace
    /\ MainStep

\* "Show summary and ask for confirmation": in crawl mode the urls are
\* discovered first, one request for each url discovered, and replace the
\* list when the user confirms; "Exit if user declined"
main_confirm ==
    /\ run_pc = "confirm"
    /\ \E confirmed \in (IF args.yes THEN {TRUE} ELSE BOOLEAN) :
          IF args.crawl
          THEN \E discovered_urls \in DiscoveryResults(current.urls[1]) :
                  /\ trace' = trace \o [i \in DOMAIN discovered_urls |->
                                           Request(UrlString(discovered_urls[i]), 0, TRUE)]
                  /\ IF confirmed
                     THEN /\ current' = [current EXCEPT !.urls = discovered_urls]
                          /\ run_pc' = "process"
                     ELSE Exit(0)
          ELSE /\ UNCHANGED trace
               /\ IF confirmed THEN run_pc' = "process" /\ UNCHANGED current
                  ELSE Exit(0)
    /\ MainStep

\* "Execute based on mode": process_multiple_urls requests every url of the
\* list (continue_on_error is always set), then main ends
main_process ==
    /\ run_pc = "process"
    /\ \E oks \in [DOMAIN current.urls -> BOOLEAN] :
          trace' = trace \o [i \in DOMAIN current.urls |->
                                Request(UrlString(current.urls[i]), 0, oks[i])]
    /\ Exit(0)
    /\ MainStep

InitMain ==
    /\ QueueIdle
    /\ TextIdle
    /\ SitemapIdle
    /\ args \in [fn : {"main"}, file : FileInputs, urls : CliInputs, sitemap : BOOLEAN,
                 crawl : BOOLEAN, yes : BOOLEAN, delay : {1}]
    /\ written = <<>>
    /\ sanitized = <<>>
    /\ stats = ScrapeStats
    /\ trace = <<>>
    /\ run_pc = "file"
    /\ current = [urls |-> <<>>, validated |-> FALSE, code |-> None]
    /\ discovered = <<>>

NextMain ==
    \/ main_file
    \/ main_sitemap
    \/ main_validate
    \/ main_confirm
    \/ main_process

SpecMain == InitMain /\ [][NextMain]_vars

\* C16: in every run of main no request (of a page, of discovery, of a
\* sitemap) is made before all the urls collected have passed validation, and
\* a run ended by a configuration error (no url, or a url without scheme or
\* host) has made no request and exits with a non-zero code.
C16_ValidationBeforeNetwork ==
    /\ trace # <<>> => current.validated
    /\ run_pc = "exit" /\ ~current.validated => trace = <<>> /\ current.code # 0

\* the events of the trace at which the links of a page were extracted
Extractions == SelectSeq(trace, LAMBDA e : e.ev = "extract")

\* C18: with max_depth > 0, every url crawl_by_path or discover_urls_by_path
\* dequeues has a depth of at most max_depth, no links are extracted from a
\* page at depth max_depth, and every url enqueued has the depth of the page
\* it was found on plus one, the seed having depth 0.
C18_DepthBounded ==
    max_depth > 0
        => /\ \A i \in DOMAIN returned : returned[i][2] <= max_depth
           /\ \A i \in DOMAIN Extractions : Extractions[i].depth < max_depth
           /\ \A i \in DOMAIN accepted :
                 IF accepted[i].found_on = <<None, None>>
                 THEN accepted[i].url = start_url /\ accepted[i].entry[2] = 0
                 ELSE accepted[i].entry[2] = accepted[i].found_on[2] + 1

\* a run with a depth limit has ended in which a page at the limit was
\* fetched and converted, after the links of a page above it were enqueued
C18_Witness ==
    /\ max_depth > 0
    /\ run_pc = "returned"
    /\ \E i \in DOMAIN Requests : Requests[i].depth = max_depth /\ Requests[i].ok
    /\ \E i \in DOMAIN accepted : accepted[i].entry[2] = max_depth
    /\ Extractions # <<>>

\* the urls the loop has dequeued and attempted
Attempted == IF args.fn = "crawl" THEN stats.total ELSE Len(discovered)

\* C19: with max_urls > 0 crawl_by_path attempts at most max_urls urls, the
\* failed ones counted, and discover_urls_by_path returns at most max_urls
\* urls; with max_urls = 0 the loops end only when the queue is empty.
C19_UrlLimit ==
    /\ Attempted = Len(Requests) + (IF run_pc = "fetch" THEN 1 ELSE 0)
    /\ Attempted = Len(returned)
    /\ args.fn = "crawl" => stats.successful + stats.failed = Len(Requests)
    /\ args.max_urls > 0 => Attempted <= args.max_urls
    /\ args.max_urls = 0 /\ run_pc = "returned" => is_empty

\* a crawl has ended at the limit of urls, one of them failed, with urls
\* left in the queue
C19_Witness ==
    /\ args.fn = "crawl"
    /\ args.max_urls = MaxUrlsArg
    /\ run_pc = "returned"
    /\ stats.total = args.max_urls
    /\ stats.failed >= 1
    /\ ~is_empty

\* a run without limit has ended after more urls than the greatest limit
C19_Unlimited ==
    /\ args.max_urls = 0
    /\ run_pc = "returned"
    /\ Attempted > MaxUrlsArg

\* C20: every url get_next has returned in a crawl is in the scope of the
\* crawl: its host is base_domain and its path starts with base_path.
C20_ReturnedInScope ==
    \A i \in DOMAIN returned :
        /\ urlparse(returned[i][1]).netloc = base_domain
        /\ StartsWith(urlparse(returned[i][1]).path, base_path)

\* C21: whatever the seed, with or without a trailing slash, with or without
\* a path, the queue accepts add(seed, 0), and the run of crawl_by_path or
\* discover_urls_by_path requests at least the seed page.
C21_SeedAccepted ==
    /\ run_pc # "start" => accepted # <<>> /\ accepted[1].url = start_url
    /\ run_pc = "returned" => Requests # <<>>

\* the sitemaps an index names
Names(loc) ==
    IF site[loc].ok THEN {site[loc].sitemap_tags[k] : k \in DOMAIN site[loc].sitemap_tags}
                         \cap SitemapLocs
    ELSE {}
\* the sitemaps reached from a set of sitemaps in n steps or fewer, one at least
RECURSIVE Reached(_, _)
Reached(from, n) ==
    IF n = 0 THEN {}
    ELSE LET next == UNION {Names(l) : l \in from}
         IN  next \cup Reached(next, n - 1)
\* the index served at the top names itself, directly or through a chain
SelfReferencing ==
    \E l \in {SM_root} \cup Reached({SM_root}, Cardinality(SitemapLocs)) :
        l \in Reached({l}, Cardinality(SitemapLocs))

\* C23 as stated: parse_sitemap never returns for a sitemap index that names
\* itself, directly or through a chain of sitemaps.
C23_CycleNeverReturns ==
    SelfReferencing => ~result.returned

\* C23, amended: parse_sitemap returns on every input, the index that names
\* itself included: the calls nest up to the recursion limit, where the
\* RecursionError is caught and the empty list returned.
C23_AlwaysReturns ==
    <>(stack = <<>> /\ result.returned)

\* the call on an index that names itself has returned, with the urls of the
\* sitemap beside it
C23_Witness ==
    /\ SelfReferencing
    /\ stack = <<>>
    /\ result.returned
    /\ result.urls # <<>>

\* the sitemaps of the index at the top that cannot be fetched, and the urls
\* of those that can
FailedSitemaps == {l \in Names(SM_root) : ~site[l].ok}
SiblingUrls ==
    UNION {{Leaves(l, MaxStack)[k] : k \in DOMAIN Leaves(l, MaxStack)} :
              l \in Names(SM_root) \ FailedSitemaps}

InitStats == InitBatch \/ InitCrawl

NextStats ==
    \/ args.fn = "batch" /\ NextBatch
    \/ args.fn # "batch" /\ NextCrawl

SpecStats == InitStats /\ [][NextStats]_vars

\* the counters between two steps of a loop
StatsConsistent ==
    /\ stats.total \in Nat /\ stats.successful \in Nat /\ stats.failed \in Nat
    /\ args.fn = "crawl"
          => /\ stats.successful + stats.failed = Len(Requests)
             /\ stats.successful + stats.failed <= stats.total
             /\ run_pc \in {"loop", "returned"}
                   => stats.successful + stats.failed = stats.total
    /\ args.fn = "batch"
          => /\ stats.successful + stats.failed = Len(Requests)
             /\ stats.successful + stats.failed <= stats.total
             /\ stats.total = Len(args.urls)
             /\ run_pc = "returned"
                   => stats.successful + stats.failed = stats.total

\* the counters over one step: none decreases, and a url that is processed
\* adds one to successful or to failed, not to both
StatsStep ==
    /\ stats'.total >= stats.total
    /\ stats'.successful >= stats.successful
    /\ stats'.failed >= stats.failed
    /\ args.fn # "discover"
          => (stats'.successful + stats'.failed) - (stats.successful + stats.failed)
                = Len(Requests') - Len(Requests)
    /\ Len(Requests') - Len(Requests) \in {0, 1}

C25_BatchReturned ==
    /\ args.fn = "batch"
    /\ run_pc = "returned"
    /\ stats.failed = 1
    /\ stats.successful = MaxBatch - 1

\* the loops under the assumption of C26: every fetch returns, so a step
\* that can be taken is taken
SpecCrawlFair == SpecCrawl /\ WF_vars(NextCrawl)

\* C26: crawl_by_path and discover_urls_by_path terminate when every fetch
\* returns and the urls in scope are finitely many, with pages that link to
\* each other in cycles, with max_depth = 0 and max_urls = 0 too: eventually
\* the function returns.
C26_CrawlTerminates == <>(run_pc = "returned")

\* a run without limit of depth or of urls returned with an empty queue after
\* the pages that link to each other, each requested once
C26_Witness ==
    /\ run_pc = "returned"
    /\ max_depth = 0
    /\ args.max_urls = 0
    /\ is_empty
    /\ \E i, j \in DOMAIN Requests :
          /\ i < j
          /\ Requests[j].url \in {Normalize(l) : l \in Links(Requests[i].url)}
          /\ Requests[i].url \in {Normalize(l) : l \in Links(Requests[j].url)}
    /\ \A i, j \in DOMAIN Requests : Requests[i].url = Requests[j].url => i = j

\* the urls at most n links in scope away from the seed, by the links of the
\* pages as they are fetched
ScopeLinks(url) ==
    {Normalize(l) : l \in {k \in Links(url) : /\ k.netloc = base_domain
                                              /\ StartsWith(k.path, base_path)}}
RECURSIVE Within(_)
Within(n) ==
    IF n = 0 THEN {Normalize(start_url)}
    ELSE LET W == The({Within(n - 1)})
         IN  W \cup UNION {ScopeLinks(url) : url \in W}
SitePaths == {P_blog, P_post, P_other, P_deep, P_deeper, P_about}

\* C27: on the same site, without failures, discover_urls_by_path and
\* crawl_by_path feed the same links to the queue: for every page, the links
\* of the page as it was fetched; a run without limit of urls therefore ends
\* having requested the urls within max_depth links of the seed, whichever
\* function it is.
C27_SameLinksFed ==
    /\ \A i \in DOMAIN Extractions : Extractions[i].links = Links(Extractions[i].url)
    /\ run_pc = "returned" /\ Failures = <<>> /\ args.max_urls = 0 /\ accepted # <<>>
          => {Requests[i].url : i \in DOMAIN Requests}
                = Within(IF max_depth = 0 THEN Cardinality(SitePaths) ELSE max_depth)

\* the same, for discover_urls_by_path alone
C27_DiscoverFeedsRawLinks ==
    args.fn = "discover" => C27_SameLinksFed

\* C28: the steps that protect code blocks are deterministic: whatever the
\* placeholders uuid4 draws, fix_broken_words gives one output for a text, and
\* so does clean_markdown_output; the text and the newlines around a fenced
\* block are treated alike for every placeholder.
C28_PlaceholderIndependent ==
    /\ pc = "fix_broken_words"
          => \A tails \in Tails(md_in) : markdown = fix_broken_words(md_in, tails)
    /\ pc = "clean_markdown_output"
          => \A tails \in Tails(md_in) : markdown = clean_markdown_output(md_in, tails)

\* the same, for clean_markdown_output alone
C28_CleanPlaceholderIndependent ==
    pc = "clean_markdown_output" => C28_PlaceholderIndependent

\* the lengths of the runs of consecutive empty lines among lines, in order
RECURSIVE BlankRuns(_)
BlankRuns(lines) ==
    IF lines = <<>> THEN <<>>
    ELSE IF Head(lines) # <<>> THEN BlankRuns(Tail(lines))
    ELSE LET n == Min({k \in 1..Len(lines) + 1 :
                          k > Len(lines) \/ lines[k] # <<>>}) - 1
         IN  <<n>> \o BlankRuns(SubSeq(lines, n + 1, Len(lines)))

\* texts without code blocks whose blank lines are empty: runs of one, two
\* and three blank lines
BlankInputs == {T_blank_2, T_blank_3, T_blank_4}

\* C29: clean_markdown_output collapses every run of three or more
\* consecutive blank lines outside code blocks to exactly two blank lines, and
\* leaves the runs of one or two blank lines as they are.
C29_BlankRunsCollapsedToTwo ==
    pc = "clean_markdown_output" /\ md_in \in BlankInputs
        => BlankRuns(Split(markdown, NL))
              = [k \in DOMAIN BlankRuns(Split(md_in, NL)) |->
                    IF BlankRuns(Split(md_in, NL))[k] >= 3 THEN 2
                    ELSE BlankRuns(Split(md_in, NL))[k]]

\* what the substitutions do: every run of blank lines becomes one blank line
C29_BlankRunsCollapsedToOne ==
    pc = "clean_markdown_output" /\ md_in \in BlankInputs
        => BlankRuns(Split(markdown, NL))
              = [k \in DOMAIN BlankRuns(Split(md_in, NL)) |-> 1]

(***************************************************************************)
(* CustomMarkdownify.convert_pre (src/url2md.py:46-148): the fenced block  *)
(* for a <pre> element.  args holds the element (the classes of the <pre>, *)
(* the first nested <code> if there is one, and its classes) and the text  *)
(* markdownify extracted; current the language and the content worked out; *)
(* markdown the string returned.                                           *)
(***************************************************************************)

LANGUAGE_PREFIX == <<"l", "a", "n", "g", "u", "a", "g", "e", "-">>

\* the bare names of the two loops over the classes
LANGUAGE_NAMES ==
    {<<"b", "a", "s", "h">>,
     <<"s", "h", "e", "l", "l">>,
     <<"s", "h">>,
     <<"p", "y", "t", "h", "o", "n">>,
     <<"p", "y">>,
     <<"j", "a", "v", "a", "s", "c", "r", "i", "p", "t">>,
     <<"j", "s">>,
     <<"t", "y", "p", "e", "s", "c", "r", "i", "p", "t">>,
     <<"t", "s">>,
     <<"d", "o", "c", "k", "e", "r", "f", "i", "l", "e">>,
     <<"d", "o", "c", "k", "e", "r">>,
     <<"y", "a", "m", "l">>,
     <<"y", "m", "l">>,
     <<"j", "s", "o", "n">>,
     <<"x", "m", "l">>,
     <<"h", "t", "m", "l">>,
     <<"c", "s", "s">>,
     <<"s", "q", "l">>,
     <<"j", "a", "v", "a">>,
     <<"c">>,
     <<"c", "p", "p">>,
     <<"g", "o">>,
     <<"r", "u", "s", "t">>,
     <<"r", "u", "b", "y">>,
     <<"p", "h", "p">>}

\* for class_name in classes: the language of the first class that begins
\* with 'language-' or is a bare name, '' when there is none
RECURSIVE ClassLanguage(_)
ClassLanguage(classes) ==
    IF classes = <<>> THEN <<>>
    ELSE IF StartsWith(Head(classes), LANGUAGE_PREFIX)
    THEN Replace(Head(classes), LANGUAGE_PREFIX, <<>>)
    ELSE IF Head(classes) \in LANGUAGE_NAMES THEN Head(classes)
    ELSE ClassLanguage(Tail(classes))

\* the same, were the nested <code> looked at before the <pre>
DetectLanguage_code_first(pre_class, code) ==
    IF code.present /\ ClassLanguage(code.class) # <<>> THEN ClassLanguage(code.class)
    ELSE ClassLanguage(pre_class)

\* the language of the element: that of the classes of the <pre>; if it is
\* empty, that of the classes of the nested <code>, if there is one
DetectLanguage(pre_class, code) ==
    IF ClassLanguage(pre_class) # <<>> THEN ClassLanguage(pre_class)
    ELSE IF code.present THEN ClassLanguage(code.class)
    ELSE <<>>

\* the content of the block: runs of 3 newlines or more become one, the ends
\* are stripped, and a blank line is put before a comment line that is not the
\* first comment, has a command after it, and does not follow an empty line
IsCommentLine(line) == StartsWith(LStrip(line, WS), <<"#">>)
HasCommandAfter(lines, i) ==
    \E j \in (i + 1)..Len(lines) :
        LStrip(lines[j], WS) # <<>> /\ ~IsCommentLine(lines[j])
RECURSIVE GroupComments(_, _)
GroupComments(lines, i) ==
    IF i > Len(lines) THEN <<>>
    ELSE (IF /\ IsCommentLine(lines[i])
             /\ \E k \in 1..(i - 1) : IsCommentLine(lines[k])
             /\ HasCommandAfter(lines, i)
             /\ lines[i - 1] # <<>>
          THEN <<<<>>, lines[i]>>
          ELSE <<lines[i]>>) \o GroupComments(lines, i + 1)
CodeContent(text) ==
    LET code_content == Strip(Sub(NEWLINES_3, ReplLit(<<NL>>), text, -1, NoFlags))
    IN  IF code_content = <<>> THEN <<>>
        ELSE Join(GroupComments(Split(code_content, NL), 1), NL)

\* the string returned
FencedBlock(language, code_content) ==
    TICKS \o language \o <<NL>>
        \o (IF code_content # <<>> THEN code_content \o <<NL>> ELSE <<>>)
        \o TICKS \o <<NL, NL>>

C_language_python == LANGUAGE_PREFIX \o <<"p", "y", "t", "h", "o", "n">>
C_language_js == LANGUAGE_PREFIX \o <<"j", "s">>
C_bash == <<"b", "a", "s", "h">>
C_highlight == <<"h", "i", "g", "h", "l", "i", "g", "h", "t">>

ClassNames == {C_language_python, C_language_js, C_bash, C_highlight}
MaxClasses == 2      \* classes on an element
ClassInputs == UNION {[1..n -> ClassNames] : n \in 0..MaxClasses}
CodeInputs ==
    {[present |-> FALSE, class |-> <<>>]}
        \cup {[present |-> TRUE, class |-> c] : c \in ClassInputs}

\* '# one\nls\n# two\npwd\n# end'
Pre_comments ==
    <<"#", " ", "o", "n", "e", "\n", "l", "s", "\n", "#", " ", "t", "w", "o", "\n",
      "p", "w", "d", "\n", "#", " ", "e", "n", "d">>
\* '\n x\n\n\n\ny \n'
Pre_newlines == <<"\n", " ", "x", "\n", "\n", "\n", "\n", "y", " ", "\n">>
PreTexts == {Pre_comments, Pre_newlines, <<>>}

\* convert_pre(el, text)
convert_pre ==
    /\ run_pc = "call"
    /\ current' = [language |-> DetectLanguage(args.pre_class, args.code),
                   code_content |-> CodeContent(args.text)]
    /\ markdown' = FencedBlock(DetectLanguage(args.pre_class, args.code),
                               CodeContent(args.text))
    /\ run_pc' = "returned"
    /\ UNCHANGED <<pc, md_in, run_out>>
    /\ UNCHANGED <<args, written, sanitized, stats, trace, discovered>>
    /\ UNCHANGED queueVars /\ UNCHANGED sitemapVars

InitPre ==
    /\ QueueIdle
    /\ TextIdle
    /\ SitemapIdle
    /\ args \in [fn : {"convert_pre"}, pre_class : ClassInputs, code : CodeInputs,
                 text : PreTexts]
    /\ written = <<>>
    /\ sanitized = <<>>
    /\ stats = <<>>
    /\ trace = <<>>
    /\ run_pc = "call"
    /\ current = <<>>
    /\ discovered = <<>>

NextPre == convert_pre

SpecPre == InitPre /\ [][NextPre]_vars

\* the classes of a list that name a language, and the language each names
Naming(classes) ==
    {k \in DOMAIN classes :
        StartsWith(classes[k], LANGUAGE_PREFIX) \/ classes[k] \in LANGUAGE_NAMES}
Prefixed(classes) == {k \in DOMAIN classes : StartsWith(classes[k], LANGUAGE_PREFIX)}
Named(class) ==
    IF StartsWith(class, LANGUAGE_PREFIX)
    THEN SubSeq(class, Len(LANGUAGE_PREFIX) + 1, Len(class))
    ELSE class

\* C30 as stated: the language is that of a language-* class of the <pre>;
\* failing that, of a language-* class of the nested <code>; only failing
\* both, a bare name; and empty when there is none.
C30_PrefixBeforeBareName ==
    run_pc = "returned"
        => current.language =
              IF Prefixed(args.pre_class) # {}
              THEN Named(args.pre_class[Min(Prefixed(args.pre_class))])
              ELSE IF Prefixed(args.code.class) # {}
              THEN Named(args.code.class[Min(Prefixed(args.code.class))])
              ELSE IF Naming(args.pre_class) # {}
              THEN args.pre_class[Min(Naming(args.pre_class))]
              ELSE IF Naming(args.code.class) # {}
              THEN args.code.class[Min(Naming(args.code.class))]
              ELSE <<>>

\* C30, amended: the language is that of the first class of the <pre>, in the
\* order of the attribute, that is a language-* class or a bare name; failing
\* both on the <pre>, that of the first such class of the nested <code>; and
\* empty when there is none.  The fence of the block returned carries it.
C30_PreBeforeCode ==
    run_pc = "returned"
        => /\ current.language =
                 IF Naming(args.pre_class) # {}
                 THEN Named(args.pre_class[Min(Naming(args.pre_class))])
                 ELSE IF Naming(args.code.class) # {}
                 THEN Named(args.code.class[Min(Naming(args.code.class))])
                 ELSE <<>>
           /\ StartsWith(markdown, TICKS \o current.language \o <<NL>>)

\* a <pre class="bash language-python"> with a <code class="language-js">
\* was rendered as a bash block
C30_Witness ==
    /\ run_pc = "returned"
    /\ args.pre_class = <<C_bash, C_language_python>>
    /\ args.code = [present |-> TRUE, class |-> <<C_language_js>>]
    /\ current.language = C_bash

====
